---- MODULE Spec2Model ----
(***************************************************************************)
(* A model of gemini-cli (src/gemini-cli.c): the conversation store, the   *)
(* streaming-response decoder, the API call and the encoding of the        *)
(* requests, as state machines.                                            *)
(*                                                                         *)
(* Conventions.                                                            *)
(*  - A C string is a sequence of characters, or of longer tokens where   *)
(*    no code looks inside it; NULL is the distinguished value NULL       *)
(*    below.  Element i of a C array is element i+1 of the sequence that   *)
(*    models it.                                                           *)
(*  - A byte of the response stream is a lexeme of the event framing: the  *)
(*    six characters of "data: ", the newline, and the JSON lexemes        *)
(*    ({ } [ ] : , string literals, a number).  A chunk boundary may fall  *)
(*    between any two of them.  The stream holds no NUL byte (the carry    *)
(*    buffer is handled as a C string).                                    *)
(*  - malloc/realloc/strdup succeed, except the realloc of the carry       *)
(*    buffer in write_memory_callback and the set-up of send_api_request,  *)
(*    whose failure the code reports to its caller; these are inputs.      *)
(*  - Four specifications: SpecDecoder (the write callback on the chunks   *)
(*    of one response), SpecCall (one call of send_api_request), Spec (a   *)
(*    session with the default configuration: the command line, then the   *)
(*    interactive loop, a step a line) and SpecRequest (the configuration  *)
(*    of a session and the requests it then sends).  The variables of the  *)
(*    others are held at rest in each.                                     *)
(***************************************************************************)
EXTENDS Integers, Sequences, FiniteSets, TLC

\* ------------------------------------------------------------------ bounds
\* complete or partial lines in a response stream of the decoder's specification
MaxLines == 2

\* 503 responses of the server before its last response to a call
MaxUnavailable == 4

\* turns of the history at which no further prompt is submitted
MaxTurns == 3

\* pending attachments at which no further attachment is made
MaxPending == 1

\* requests of a session of the requests' specification
MaxCalls == 2

\* --------------------------------------------------------------- C strings
NULL == <<"<NULL>">>

strdup(s) == s

\* One fprintf(stderr, ...): the format, its numeric argument (0 when it has
\* none) and its string argument (empty when it has none).
Msg(format, code, text) == [format |-> format, code |-> code, text |-> text]

\* ------------------------------------------------------------------ cJSON
\* A cJSON item: its type, its valuestring (strings), its valueint (numbers),
\* its name in the enclosing object (NoName in an array) and its children in
\* order.
NoName == "<none>"

JItem(type, valuestring, child) ==
    [type |-> type, valuestring |-> valuestring, valueint |-> 0, name |-> NoName,
     child |-> child]

JNULL == JItem("NULL", <<>>, <<>>)

Named(item, name) == [item EXCEPT !.name = name]

\* cJSON_CreateNumber, cJSON_CreateString, cJSON_CreateBool, cJSON_CreateObject
\* and cJSON_CreateArray
cJSON_CreateNumber(n) == [JItem("Number", <<>>, <<>>) EXCEPT !.valueint = n]

cJSON_CreateString(string) == JItem("String", string, <<>>)

cJSON_CreateBool(b) == JItem(IF b THEN "True" ELSE "False", <<>>, <<>>)

cJSON_CreateObject == JItem("Object", <<>>, <<>>)

cJSON_CreateArray == JItem("Array", <<>>, <<>>)

\* cJSON_AddItemToObject and cJSON_AddItemToArray: the item becomes the last child
cJSON_AddItemToObject(object, name, item) ==
    [object EXCEPT !.child = Append(@, Named(item, name))]

cJSON_AddItemToArray(array, item) == [array EXCEPT !.child = Append(@, item)]

\* cJSON_AddStringToObject; cJSON_CreateString(NULL) creates no item, and
\* nothing is added then
cJSON_AddStringToObject(object, name, string) ==
    IF string = NULL THEN object
    ELSE cJSON_AddItemToObject(object, name, cJSON_CreateString(string))

cJSON_AddNumberToObject(object, name, n) ==
    cJSON_AddItemToObject(object, name, cJSON_CreateNumber(n))

\* The string literals of the modelled streams: the lexeme, the name it gives a
\* member when it stands before a colon, and its value as a string.
StrLexemes ==
    { "\"candidates\"", "\"content\"", "\"parts\"", "\"text\"", "\"error\"",
      "\"message\"", "\"x\"", "\"y\"", "\"\"" }

StrName(lex) ==
    CASE lex = "\"candidates\"" -> "candidates"
      [] lex = "\"content\""    -> "content"
      [] lex = "\"parts\""      -> "parts"
      [] lex = "\"text\""       -> "text"
      [] lex = "\"error\""      -> "error"
      [] lex = "\"message\""    -> "message"
      [] lex = "\"x\""          -> "x"
      [] lex = "\"y\""          -> "y"
      [] OTHER                  -> ""

StrValue(lex) ==
    CASE lex = "\"x\"" -> <<"x">>
      [] lex = "\"y\"" -> <<"y">>
      [] lex = "\"\""  -> <<>>
      [] OTHER         -> <<StrName(lex)>>

\* the digits of a number, as they are written
Digits == <<"0", "1", "2", "3", "4", "5", "6", "7", "8", "9">>

DigitValue(d) == (CHOOSE i \in 1 .. 10 : Digits[i] = d) - 1

IsDigit(x) == \E i \in 1 .. 10 : Digits[i] = x

\* skip: the bytes up to the first above 32 (of the modelled bytes, the
\* space, the newline and the tabulator)
RECURSIVE SkipWhitespace(_)
SkipWhitespace(s) ==
    IF s # <<>> /\ Head(s) \in {" ", "\n", "\t"} THEN SkipWhitespace(Tail(s)) ELSE s

ParseFail == [ok |-> FALSE, item |-> JNULL, rest |-> <<>>]

Parsed(item, rest) == [ok |-> TRUE, item |-> item, rest |-> rest]

\* parse_string after the opening quote: the tokens up to the closing quote,
\* an escape sequence giving the token it stands for
RECURSIVE ParseString(_, _)
ParseString(s, acc) ==
    IF s = <<>> THEN ParseFail
    ELSE IF Head(s) = "\"" THEN Parsed(cJSON_CreateString(acc), Tail(s))
    ELSE IF Head(s) # "\\" THEN ParseString(Tail(s), Append(acc, Head(s)))
    ELSE IF Len(s) < 2 THEN ParseFail
    ELSE IF s[2] \in {"\"", "\\"} THEN ParseString(Tail(Tail(s)), Append(acc, s[2]))
    ELSE IF s[2] = "n" THEN ParseString(Tail(Tail(s)), Append(acc, "\n"))
    ELSE IF s[2] = "t" THEN ParseString(Tail(Tail(s)), Append(acc, "\t"))
    ELSE ParseFail

\* parse_number: the digits at the head of s
RECURSIVE ParseNumber(_, _, _)
ParseNumber(s, sign, n) ==
    IF s # <<>> /\ IsDigit(Head(s)) THEN ParseNumber(Tail(s), sign, 10 * n + DigitValue(Head(s)))
    ELSE Parsed(cJSON_CreateNumber(sign * n), s)

\* the name a member gets from the string before its colon
NameOf(string) == IF Len(string) = 1 THEN string[1] ELSE ""

RECURSIVE ParseValue(_), ParseArrayItems(_, _), ParseMembers(_, _)
\* parse_array after an item and the whitespace behind it
AfterItem(u, acc) ==
    IF u = <<>> THEN ParseFail
    ELSE IF Head(u) = "," THEN ParseArrayItems(Tail(u), acc)
    ELSE IF Head(u) = "]" THEN Parsed(JItem("Array", <<>>, acc), Tail(u))
    ELSE ParseFail

ItemParsed(r, acc) ==
    IF ~r.ok THEN ParseFail ELSE AfterItem(SkipWhitespace(r.rest), Append(acc, r.item))

ParseArrayItems(s, acc) == ItemParsed(ParseValue(s), acc)

\* parse_object after a member and the whitespace behind it
AfterMember(w, acc) ==
    IF w = <<>> THEN ParseFail
    ELSE IF Head(w) = "," THEN ParseMembers(Tail(w), acc)
    ELSE IF Head(w) = "}" THEN Parsed(JItem("Object", <<>>, acc), Tail(w))
    ELSE ParseFail

MemberParsed(name, r, acc) ==
    IF ~r.ok THEN ParseFail
    ELSE AfterMember(SkipWhitespace(r.rest), Append(acc, Named(r.item, name)))

\* parse_object after the name of a member and the whitespace behind it
NamedMember(name, u, acc) ==
    IF u = <<>> \/ Head(u) # ":" THEN ParseFail
    ELSE MemberParsed(name, ParseValue(Tail(u)), acc)

SpelledName(r, acc) ==
    IF ~r.ok THEN ParseFail
    ELSE NamedMember(NameOf(r.item.valuestring), SkipWhitespace(r.rest), acc)

MemberAt(t, acc) ==
    IF t = <<>> THEN ParseFail
    ELSE IF Head(t) \in StrLexemes
        THEN NamedMember(StrName(Head(t)), SkipWhitespace(Tail(t)), acc)
    ELSE IF Head(t) = "\"" THEN SpelledName(ParseString(Tail(t), <<>>), acc)
    ELSE ParseFail

ParseMembers(s, acc) == MemberAt(SkipWhitespace(s), acc)

\* parse_array and parse_object after the bracket and the whitespace behind it
ArrayAt(u) ==
    IF u # <<>> /\ Head(u) = "]" THEN Parsed(JItem("Array", <<>>, <<>>), Tail(u))
    ELSE ParseArrayItems(u, <<>>)

ObjectAt(u) ==
    IF u # <<>> /\ Head(u) = "}" THEN Parsed(JItem("Object", <<>>, <<>>), Tail(u))
    ELSE ParseMembers(u, <<>>)

\* parse_value at the first byte that is not whitespace: a string (one lexeme,
\* or spelled out between quotes), a number, true, false, null, an array or
\* an object
ValueAt(t) ==
    IF t = <<>> THEN ParseFail
    ELSE IF Head(t) \in StrLexemes
        THEN Parsed(JItem("String", StrValue(Head(t)), <<>>), Tail(t))
    ELSE IF Head(t) = "\"" THEN ParseString(Tail(t), <<>>)
    ELSE IF IsDigit(Head(t)) THEN ParseNumber(t, 1, 0)
    ELSE IF Head(t) = "-" /\ Len(t) >= 2 /\ IsDigit(t[2]) THEN ParseNumber(Tail(t), -1, 0)
    ELSE IF Head(t) = "true" THEN Parsed(cJSON_CreateBool(TRUE), Tail(t))
    ELSE IF Head(t) = "false" THEN Parsed(cJSON_CreateBool(FALSE), Tail(t))
    ELSE IF Head(t) = "null" THEN Parsed(JNULL, Tail(t))
    ELSE IF Head(t) = "[" THEN ArrayAt(SkipWhitespace(Tail(t)))
    ELSE IF Head(t) = "{" THEN ObjectAt(SkipWhitespace(Tail(t)))
    ELSE ParseFail

\* parse_value: one JSON value at the head of s (leading whitespace skipped).
ParseValue(s) == ValueAt(SkipWhitespace(s))

\* cJSON_Parse: the value at the head of the text; what follows it is ignored.
\* NULL when the text does not start with a value.
cJSON_Parse(s) == LET r == ParseValue(s) IN IF r.ok THEN r.item ELSE JNULL

cJSON_IsArray(item) == item.type = "Array"

cJSON_IsString(item) == item.type = "String"

cJSON_IsNumber(item) == item.type = "Number"

cJSON_IsBool(item) == item.type \in {"True", "False"}

cJSON_IsTrue(item) == item.type = "True"

cJSON_IsObject(item) == item.type = "Object"

\* cJSON_GetObjectItem: the first child with that name, NULL when there is none.
cJSON_GetObjectItem(object, name) ==
    LET hits == { i \in 1 .. Len(object.child) : object.child[i].name = name } IN
    IF hits = {} THEN JNULL
    ELSE object.child[CHOOSE i \in hits : \A j \in hits : i <= j]

\* cJSON_DeleteItemFromObject: the object without its first child of that name;
\* nothing happens when there is none, or when the object is NULL.
cJSON_DeleteItemFromObject(object, name) ==
    LET hits == { i \in 1 .. Len(object.child) : object.child[i].name = name } IN
    IF object = JNULL \/ hits = {} THEN object
    ELSE LET first == CHOOSE i \in hits : \A j \in hits : i <= j IN
         [object EXCEPT !.child = SubSeq(@, 1, first - 1) \o SubSeq(@, first + 1, Len(@))]

\* cJSON_GetArrayItem: child number index (from 0), NULL when out of range.
cJSON_GetArrayItem(array, index) ==
    IF index >= 0 /\ index < Len(array.child) THEN array.child[index + 1] ELSE JNULL

\* print_string_ptr: the tokens of a string with the quote, the backslash, the
\* newline and the tabulator escaped
RECURSIVE Escaped(_)
Escaped(string) ==
    IF string = <<>> THEN <<>>
    ELSE (IF Head(string) \in {"\"", "\\"} THEN << "\\", Head(string) >>
          ELSE IF Head(string) = "\n" THEN << "\\", "n" >>
          ELSE IF Head(string) = "\t" THEN << "\\", "t" >>
          ELSE << Head(string) >>)
         \o Escaped(Tail(string))

PrintString(string) == << "\"" >> \o Escaped(string) \o << "\"" >>

\* print_number: the digits of an integer
RECURSIVE DigitsOf(_)
DigitsOf(n) ==
    IF n < 10 THEN << Digits[n + 1] >> ELSE Append(DigitsOf(n \div 10), Digits[(n % 10) + 1])

PrintNumber(n) == IF n < 0 THEN << "-" >> \o DigitsOf(0 - n) ELSE DigitsOf(n)

\* the indentation of a line at a depth
Tabs(depth) == [i \in 1 .. depth |-> "\t"]

\* print_value, formatted: the members of an object on lines of their own,
\* indented by their depth; the items of an array on one line
RECURSIVE PrintValue(_, _), PrintItems(_, _, _), PrintMembers(_, _, _)
PrintValue(item, depth) ==
    CASE item.type = "String" -> PrintString(item.valuestring)
      [] item.type = "Number" -> PrintNumber(item.valueint)
      [] item.type = "True"   -> << "true" >>
      [] item.type = "False"  -> << "false" >>
      [] item.type = "Array"  -> << "[" >> \o PrintItems(item.child, 1, depth + 1) \o << "]" >>
      [] item.type = "Object" ->
             << "{", "\n" >> \o PrintMembers(item.child, 1, depth + 1)
             \o Tabs(depth) \o << "}" >>
      [] OTHER -> << "null" >>

PrintItems(child, i, depth) ==
    IF i > Len(child) THEN <<>>
    ELSE PrintValue(child[i], depth)
         \o (IF i < Len(child) THEN << ",", " " >> ELSE <<>>)
         \o PrintItems(child, i + 1, depth)

PrintMembers(child, i, depth) ==
    IF i > Len(child) THEN <<>>
    ELSE Tabs(depth) \o PrintString(<< child[i].name >>) \o << ":", "\t" >>
         \o PrintValue(child[i], depth)
         \o (IF i < Len(child) THEN << "," >> ELSE <<>>) \o << "\n" >>
         \o PrintMembers(child, i + 1, depth)

\* cJSON_Print: the text of an item
cJSON_Print(item) == PrintValue(item, 0)

\* ------------------------------------------------------- the stream decoder
NL == "\n"

DataPrefix == <<"d", "a", "t", "a", ":", " ">>

\* strncmp(line, "data: ", 6) == 0
HasDataPrefix(line) == Len(line) >= 6 /\ SubSeq(line, 1, 6) = DataPrefix

\* The state the decoder works on: the MemoryStruct of the call (buffer, size,
\* full_response, full_response_size), what printf has written to stdout (one
\* element per call) and, as a history, the lines handed to process_line.
NewDecoder ==
    [buffer |-> <<>>, size |-> 0, full_response |-> <<>>, full_response_size |-> 0,
     stdout |-> <<>>, lines |-> <<>>]

\* if (cJSON_IsArray(array)) item = cJSON_GetArrayItem(array, index); else NULL
ItemIfArray(array, index) ==
    IF cJSON_IsArray(array) THEN cJSON_GetArrayItem(array, index) ELSE JNULL

\* EventText with the last element of parts taken for the first.
EventText_last_part(line) ==
    LET json_root  == cJSON_Parse(SubSeq(line, 7, Len(line)))
        candidates == cJSON_GetObjectItem(json_root, "candidates")
        candidate  == ItemIfArray(candidates, 0)
        content    == cJSON_GetObjectItem(candidate, "content")
        parts      == cJSON_GetObjectItem(content, "parts")
        part       == ItemIfArray(parts, Len(parts.child) - 1)
    IN  cJSON_GetObjectItem(part, "text")

\* The cJSON item process_line calls `text`: candidates[0].content.parts[0].text
\* of the document after the prefix, NULL as soon as one step yields NULL
\* (cJSON_GetObjectItem of NULL is NULL).
EventText(line) ==
    LET json_root  == cJSON_Parse(SubSeq(line, 7, Len(line)))
        candidates == cJSON_GetObjectItem(json_root, "candidates")
        candidate  == ItemIfArray(candidates, 0)
        content    == cJSON_GetObjectItem(candidate, "content")
        parts      == cJSON_GetObjectItem(content, "parts")
        part       == ItemIfArray(parts, 0)
    IN  cJSON_GetObjectItem(part, "text")

\* process_line without the cJSON_IsString test on text.
process_line_any_text(line, mem) ==
    LET seen == [mem EXCEPT !.lines = Append(@, line)] IN
    IF ~HasDataPrefix(line) THEN seen
    ELSE LET text == EventText(line) IN
         [seen EXCEPT
             !.stdout = Append(@, text.valuestring),
             !.full_response =
                 SubSeq(@, 1, mem.full_response_size) \o text.valuestring,
             !.full_response_size = @ + Len(text.valuestring)]

process_line(line, mem) ==
    LET seen == [mem EXCEPT !.lines = Append(@, line)] IN
    IF ~HasDataPrefix(line) THEN seen
    ELSE LET text == EventText(line) IN
         IF ~cJSON_IsString(text) THEN seen
         ELSE [seen EXCEPT
                  !.stdout = Append(@, text.valuestring),
                  !.full_response =
                      SubSeq(@, 1, mem.full_response_size) \o text.valuestring,
                  !.full_response_size = @ + Len(text.valuestring)]

\* strchr(mem->buffer, '\n'): the offset of the first newline, -1 for NULL.
NewlineAt(mem) ==
    LET at == { i \in 1 .. mem.size : mem.buffer[i] = NL } IN
    IF at = {} THEN -1 ELSE (CHOOSE i \in at : \A j \in at : i <= j) - 1

\* The line loop as an if: one line a call.
LineLoop_once(mem) ==
    LET line_end == NewlineAt(mem) IN
    IF line_end = -1 THEN mem
    ELSE LET done     == process_line(SubSeq(mem.buffer, 1, line_end), mem)
             line_len == line_end + 1
         IN  [done EXCEPT
                 !.buffer = SubSeq(mem.buffer, line_len + 1, line_len + (mem.size - line_len)),
                 !.size = mem.size - line_len]

\* The line loop taking the whole buffer for the line it found.
LineLoop_whole_buffer(mem) ==
    LET line_end == NewlineAt(mem) IN
    IF line_end = -1 THEN mem
    ELSE [process_line(SubSeq(mem.buffer, 1, line_end), mem) EXCEPT
             !.buffer = << >>, !.size = 0]

\* The while loop of write_memory_callback.
RECURSIVE LineLoop(_)
LineLoop(mem) ==
    LET line_end == NewlineAt(mem) IN
    IF line_end = -1 THEN mem
    ELSE LET done     == process_line(SubSeq(mem.buffer, 1, line_end), mem)
             line_len == line_end + 1
         IN  LineLoop([done EXCEPT
                 !.buffer = SubSeq(mem.buffer, line_len + 1, line_len + (mem.size - line_len)),
                 !.size = mem.size - line_len])

\* write_memory_callback copying the chunk to the start of the buffer.
write_memory_callback_no_carry(mem, contents, realloc_ok) ==
    LET realsize == Len(contents) IN
    IF ~realloc_ok THEN [mem |-> mem, ret |-> 0]
    ELSE [mem |-> LineLoop([mem EXCEPT !.buffer = contents, !.size = realsize]),
          ret |-> realsize]

\* write_memory_callback on one chunk: the decoder afterwards and the value
\* returned to the transport.
write_memory_callback(mem, contents, realloc_ok) ==
    LET realsize == Len(contents) IN
    IF ~realloc_ok THEN [mem |-> mem, ret |-> 0]
    ELSE [mem |-> LineLoop([mem EXCEPT
                     !.buffer = SubSeq(@, 1, mem.size) \o contents,
                     !.size = @ + realsize]),
          ret |-> realsize]

\* ----------------------------------------------------- the modelled streams
\* {"candidates":[{"content":{"parts":[ p1, p2, ... ]}}]}
RECURSIVE JoinParts(_)
JoinParts(ps) ==
    IF ps = <<>> THEN <<>>
    ELSE IF Len(ps) = 1 THEN Head(ps)
    ELSE Head(ps) \o <<",">> \o JoinParts(Tail(ps))

TextPartJson(lex) == <<"{", "\"text\"", ":", lex, "}">>

EventJson(ps) ==
    <<"{", "\"candidates\"", ":", "[", "{", "\"content\"", ":", "{", "\"parts\"", ":", "[">>
    \o JoinParts(ps) \o <<"]", "}", "}", "]", "}">>

\* the lists of text parts of the events of the modelled streams
EventTexts == { <<"\"x\"">>, <<"\"y\"", "\"x\"">> }

EventLine(texts) ==
    DataPrefix \o EventJson([i \in 1 .. Len(texts) |-> TextPartJson(texts[i])])

EventLines == { EventLine(texts) : texts \in EventTexts }

\* lines the decoder has to skip: the empty line, an event without the prefix,
\* a document cut short, a text that is no string, a document without candidates
SkippedLines ==
    { <<>>,
      EventJson(<<TextPartJson("\"x\"")>>),
      DataPrefix \o <<"{", "\"candidates\"", ":">>,
      DataPrefix \o EventJson(<<TextPartJson("1")>>),
      DataPrefix \o <<"{", "\"error\"", ":", "{", "\"message\"", ":", "\"x\"", "}", "}">> }

StreamLines == EventLines \cup SkippedLines

RECURSIVE Wire(_)
\* the bytes of a stream: every line followed by its newline
Wire(ls) == IF ls = <<>> THEN <<>> ELSE Head(ls) \o <<NL>> \o Wire(Tail(ls))

LineSeqs(n) == UNION { [1 .. k -> StreamLines] : k \in 0 .. n }

\* the bytes of a stream whose last line the server did not terminate
Unterminated(ls) == SubSeq(Wire(ls), 1, Len(Wire(ls)) - 1)

\* the streams a transfer may carry: up to n lines with their newlines, and
\* the shorter ones with the connection closed after the last byte of the
\* last line
Wires(n) ==
    { Wire(ls) : ls \in LineSeqs(n) }
        \cup { Unterminated(ls) : ls \in LineSeqs(n - 1) \ { << >> } }

\* ------------------------------------------------- the conversation store
\* A Part.  The compound literals of the code leave filename zero.
Part(type, text, mime_type, base64_data, filename) ==
    [type |-> type, text |-> text, mime_type |-> mime_type,
     base64_data |-> base64_data, filename |-> filename]

\* (Part){ .type = PART_TYPE_TEXT, .text = text, .mime_type = NULL, .base64_data = NULL }
TextPart(text) == Part("PART_TYPE_TEXT", text, NULL, NULL, NULL)

\* the copy of one part that add_content_to_history stores
CopyOfPart(part) ==
    IF part.type = "PART_TYPE_TEXT"
        THEN Part(part.type, strdup(part.text), NULL, NULL, NULL)
    ELSE Part(part.type, NULL, strdup(part.mime_type), strdup(part.base64_data),
              IF part.filename # NULL THEN strdup(part.filename) ELSE NULL)

\* A History is [contents, num_contents]; contents holds the num_contents
\* turns of the array (a slot past them is not kept).  A Content is
\* [role, parts, num_parts].
EmptyHistory == [contents |-> <<>>, num_contents |-> 0]

\* add_content_to_history with the turn written but not counted.
add_content_to_history_not_counted(history, role, parts, num_parts) ==
    [contents |->
         Append(SubSeq(history.contents, 1, history.num_contents),
                [role |-> strdup(role),
                 parts |-> [i \in 1 .. num_parts |-> CopyOfPart(parts[i])],
                 num_parts |-> num_parts]),
     num_contents |-> history.num_contents]

\* add_content_to_history: the array grows by one slot, which takes a copy of
\* the role and of the first num_parts parts; num_contents++.
add_content_to_history(history, role, parts, num_parts) ==
    [contents |->
         Append(SubSeq(history.contents, 1, history.num_contents),
                [role |-> strdup(role),
                 parts |-> [i \in 1 .. num_parts |-> CopyOfPart(parts[i])],
                 num_parts |-> num_parts]),
     num_contents |-> history.num_contents + 1]

\* The rollback that leaves the history as it is.
RemoveLastContent_nothing(history) == history

\* history.num_contents--; free_content(&history.contents[history.num_contents]);
RemoveLastContent(history) ==
    [contents |-> SubSeq(history.contents, 1, history.num_contents - 1),
     num_contents |-> history.num_contents - 1]

\* The removal of a part that does not count it off.
RemovePart_not_counted(content, part_idx) ==
    [content EXCEPT
        !.parts = SubSeq(@, 1, part_idx) \o SubSeq(@, part_idx + 2, content.num_parts)]

\* The part part_idx (from 0) is freed, the parts after it move down by one
\* (memmove), num_parts--.
RemovePart(content, part_idx) ==
    [content EXCEPT
        !.parts = SubSeq(@, 1, part_idx) \o SubSeq(@, part_idx + 2, content.num_parts),
        !.num_parts = @ - 1]

\* free_history
free_history(history) == EmptyHistory

\* free_pending_attachments that leaves the list as it is
free_pending_attachments_kept(state) == state

\* free_pending_attachments
free_pending_attachments(state) ==
    [state EXCEPT !.attached_parts = <<>>, !.num_attached_parts = 0]

\* DEFAULT_MODEL_NAME; a model name is a sequence of tokens, "flash" one of them
DEFAULT_MODEL_NAME == <<"gemini-2.5-", "pro">>

\* initialize_default_state: the fields of AppState;
\* attached_parts holds the num_attached_parts parts that are registered, and
\* the temperature is counted in hundredths.
initialize_default_state ==
    [api_key |-> <<>>,
     origin |-> <<"default">>,
     model_name |-> DEFAULT_MODEL_NAME,
     temperature |-> 75,
     max_output_tokens |-> 65536,
     thinking_budget |-> -1,
     google_grounding |-> TRUE,
     url_context |-> TRUE,
     history |-> EmptyHistory,
     last_model_response |-> NULL,
     system_prompt |-> NULL,
     attached_parts |-> <<>>,
     num_attached_parts |-> 0,
     seed |-> 42,
     current_session_name |-> <<"[unsaved]">>]

\* clear_session_state
\* clear_session_state that leaves the system prompt
clear_session_state_keeps_prompt(state) ==
    [free_pending_attachments(state) EXCEPT
        !.history = free_history(@),
        !.last_model_response = NULL,
        !.current_session_name = <<"[unsaved]">>]

clear_session_state(state) ==
    [free_pending_attachments(state) EXCEPT
        !.history = free_history(@),
        !.last_model_response = NULL,
        !.system_prompt = NULL,
        !.current_session_name = <<"[unsaved]">>]

\* ------------------------------------------------- the attachment ingestor
ATTACHMENT_LIMIT == 1024

UpperCase == <<"A","B","C","D","E","F","G","H","I","J","K","L","M",
               "N","O","P","Q","R","S","T","U","V","W","X","Y","Z">>

LowerCase == <<"a","b","c","d","e","f","g","h","i","j","k","l","m",
               "n","o","p","q","r","s","t","u","v","w","x","y","z">>

tolower(c) ==
    IF \E i \in 1 .. 26 : UpperCase[i] = c
        THEN LowerCase[CHOOSE i \in 1 .. 26 : UpperCase[i] = c]
    ELSE c

\* STRCASECMP(a, b) == 0
SameIgnoringCase(a, b) ==
    Len(a) = Len(b) /\ \A i \in 1 .. Len(a) : tolower(a[i]) = tolower(b[i])

\* is_path_safe (POSIX build)
is_path_safe(path) ==
    /\ path # NULL /\ path # <<>>
    /\ ~ \E i \in 1 .. Len(path) - 1 : path[i] = "." /\ path[i + 1] = "."
    /\ path[1] # "/"

\* the extensions of get_mime_type that are not text/plain, with their type
MimeTable ==
    { << <<".","h","t","m","l">>, <<"text/html">> >>,
      << <<".","j","s","o","n">>, <<"application/json">> >>,
      << <<".","x","m","l">>,     <<"application/xml">> >>,
      << <<".","j","p","g">>,     <<"image/jpeg">> >>,
      << <<".","j","p","e","g">>, <<"image/jpeg">> >>,
      << <<".","p","n","g">>,     <<"image/png">> >>,
      << <<".","g","i","f">>,     <<"image/gif">> >>,
      << <<".","w","e","b","p">>, <<"image/webp">> >>,
      << <<".","p","d","f">>,     <<"application/pdf">> >> }

\* get_mime_type: by the text from the last dot on, text/plain when there is
\* no dot, the dot is the first character or the extension is not in the table
get_mime_type(filename) ==
    LET dots == { i \in 1 .. Len(filename) : filename[i] = "." } IN
    IF dots = {} \/ dots = {1} THEN <<"text/plain">>
    ELSE LET dot  == SubSeq(filename, CHOOSE i \in dots : \A j \in dots : j <= i, Len(filename))
             hits == { e \in MimeTable : SameIgnoringCase(dot, e[1]) }
         IN  IF hits = {} THEN <<"text/plain">> ELSE (CHOOSE e \in hits : TRUE)[2]

b64_chars ==
    <<"A","B","C","D","E","F","G","H","I","J","K","L","M","N","O","P",
      "Q","R","S","T","U","V","W","X","Y","Z","a","b","c","d","e","f",
      "g","h","i","j","k","l","m","n","o","p","q","r","s","t","u","v",
      "w","x","y","z","0","1","2","3","4","5","6","7","8","9","+","/">>

\* the four characters of base64_encode for one group of one to three bytes
EncodeTriple(group) ==
    LET n      == Len(group)
        triple == group[1] * 65536
                  + (IF n >= 2 THEN group[2] ELSE 0) * 256
                  + (IF n >= 3 THEN group[3] ELSE 0)
    IN  << b64_chars[((triple \div 262144) % 64) + 1],
           b64_chars[((triple \div 4096) % 64) + 1],
           IF n >= 2 THEN b64_chars[((triple \div 64) % 64) + 1] ELSE "=",
           IF n >= 3 THEN b64_chars[(triple % 64) + 1] ELSE "=" >>

\* base64_encode: character j of the output comes from the group of three
\* bytes it belongs to; output_length = 4 * ((input_length + 2) / 3)
EncodedChar(data, j) ==
    EncodeTriple(SubSeq(data, 3 * ((j - 1) \div 4) + 1,
                        IF 3 * ((j - 1) \div 4) + 3 <= Len(data)
                            THEN 3 * ((j - 1) \div 4) + 3 ELSE Len(data)))[((j - 1) % 4) + 1]

base64_encode(data) ==
    SubSeq([j \in 1 .. 4 * ((Len(data) + 2) \div 3) |-> EncodedChar(data, j)],
           1, 4 * ((Len(data) + 2) \div 3))

\* A source of an attachment: the name, whether the code has to open it
\* (stream == NULL), whether fopen succeeds, the bytes it delivers and whether
\* reading ends in an error.
Source(filepath, is_from_file, opens, data, read_error) ==
    [filepath |-> filepath, is_from_file |-> is_from_file, opens |-> opens,
     data |-> data, read_error |-> read_error]

\* size_t capacity = 32 * 1024
INITIAL_CAPACITY == 32 * 1024

\* the bytes asked of one fread
READ_SIZE == 1024

\* the width of size_t in bits, scaled to the sizes of the modelled sources (32
\* or 64 in a build): the arithmetic on capacity is modulo 2^SIZE_BITS
SIZE_BITS == 17

SizeT(n) == n % (2 ^ SIZE_BITS)

\* The allocations of one ingestion: whether the first malloc succeeds, the
\* number of the realloc that fails (0: none), whether the two strdup of the
\* metadata succeed, whether the malloc of base64_encode succeeds.
Alloc(malloc_ok, realloc_fail_at, strdup_ok, encode_ok) ==
    [malloc_ok |-> malloc_ok, realloc_fail_at |-> realloc_fail_at,
     strdup_ok |-> strdup_ok, encode_ok |-> encode_ok]

\* every allocation succeeds
AllocOK == Alloc(TRUE, 0, TRUE, TRUE)

\* The read loop before its first fread: the buffer, total_read and capacity;
\* and, as a history, the successful doublings, every value capacity had, the
\* least number of free bytes before a fread, and how the loop ended.
NewRead ==
    [buffer |-> <<>>, total_read |-> 0, capacity |-> INITIAL_CAPACITY, doublings |-> 0,
     capacities |-> << INITIAL_CAPACITY >>, min_free |-> INITIAL_CAPACITY, exit |-> "reading"]

\* The resize without the overflow guard.
Doubled_unguarded(alloc, r, new_capacity) ==
    [r EXCEPT !.capacity = new_capacity, !.capacities = Append(@, new_capacity),
              !.doublings = @ + 1]

\* new_capacity = capacity * 2: the overflow guard, then realloc
Doubled(alloc, r, new_capacity) ==
    IF new_capacity <= r.capacity THEN [r EXCEPT !.exit = "overflow"]
    ELSE IF alloc.realloc_fail_at = r.doublings + 1
        THEN [r EXCEPT !.capacity = new_capacity, !.capacities = Append(@, new_capacity),
                       !.exit = "realloc"]
    ELSE [r EXCEPT !.capacity = new_capacity, !.capacities = Append(@, new_capacity),
                   !.doublings = @ + 1]

\* The resize by the bytes of one fread.
Grown_by_one_read(alloc, r) ==
    IF SizeT(r.capacity - r.total_read) < READ_SIZE
        THEN Doubled(alloc, r, SizeT(r.capacity + READ_SIZE))
    ELSE r

\* if (capacity - total_read < 1024) the buffer is resized
Grown(alloc, r) ==
    IF SizeT(r.capacity - r.total_read) < READ_SIZE
        THEN Doubled(alloc, r, SizeT(r.capacity * 2))
    ELSE r

\* the free bytes of the buffer at a fread, kept when they are the fewest
FreeAtRead(r) == IF r.capacity - r.total_read < r.min_free THEN r.capacity - r.total_read ELSE r.min_free

\* one fread that returned bytes_read > 0 bytes, and total_read += bytes_read
Read(data, r, bytes_read) ==
    [r EXCEPT !.buffer = @ \o SubSeq(data, r.total_read + 1, r.total_read + bytes_read),
              !.total_read = SizeT(@ + bytes_read),
              !.min_free = FreeAtRead(r)]

\* while ((bytes_read = fread(buffer + total_read, 1, 1024, stream)) > 0): a
\* fread returns 1024 bytes, or what is left of the source
RECURSIVE ReadLoop(_, _, _)
ReadLoop(data, alloc, r) ==
    IF r.exit # "reading" THEN r
    ELSE IF Len(data) - r.total_read = 0 THEN [r EXCEPT !.exit = "eof", !.min_free = FreeAtRead(r)]
    ELSE ReadLoop(data, alloc,
                  Grown(alloc, Read(data, r, IF Len(data) - r.total_read < READ_SIZE
                                                 THEN Len(data) - r.total_read
                                                 ELSE READ_SIZE)))

\* What an ingestion leaves: the state, the outcome, the line written to
\* stderr, the read loop as it ended and the bytes given to base64_encode.
Ingested(state, outcome, stderr, read, encoder_input) ==
    [state |-> state, outcome |-> outcome, stderr |-> stderr, read |-> read,
     encoder_input |-> encoder_input]

\* the part is registered: part->base64_data, (state->num_attached_parts)++
Registered(src, mime_type, state, base64_data) ==
    [state EXCEPT
        !.attached_parts =
            Append(SubSeq(@, 1, state.num_attached_parts),
                   Part("PART_TYPE_FILE", NULL, strdup(mime_type), base64_data,
                        strdup(src.filepath))),
        !.num_attached_parts = @ + 1]

\* A failure that counts the slot it has written.
Unregistered_counted(src, mime_type, state) ==
    [state EXCEPT
        !.attached_parts =
            Append(SubSeq(@, 1, state.num_attached_parts),
                   Part("PART_TYPE_FILE", NULL, NULL, NULL, NULL)),
        !.num_attached_parts = @ + 1]

\* A failure after part = &state->attached_parts[state->num_attached_parts]:
\* the type and the text of the slot are written, what was allocated for it
\* is freed, and num_attached_parts is left as it is.
Unregistered(src, mime_type, state) ==
    [state EXCEPT
        !.attached_parts =
            Append(SubSeq(@, 1, state.num_attached_parts),
                   Part("PART_TYPE_FILE", NULL, NULL, NULL, NULL))]

\* handle_attachment_from_stream from the end of the read loop r
AfterReading(src, mime_type, state, alloc, r) ==
    IF r.exit = "overflow"
        THEN Ingested(state, "overflow",
                      Msg("Error: Buffer capacity overflow for extremely large attachment.", 0, <<>>),
                      r, <<>>)
    ELSE IF r.exit = "realloc"
        THEN Ingested(state, "realloc",
                      Msg("Error: Buffer reallocation failed for attachment.", 0, <<>>), r, <<>>)
    ELSE IF src.read_error
        THEN Ingested(state, "read", Msg("Error reading from attachment stream", 0, <<>>), r, <<>>)
    ELSE IF r.total_read = 0
        THEN Ingested(state, "nodata",
                      Msg("Warning: No data was read from the attachment source '%s'. Skipped.",
                          0, src.filepath), r, <<>>)
    ELSE IF ~alloc.strdup_ok
        THEN Ingested(Unregistered(src, mime_type, state), "metadata",
                      Msg("Error: Failed to allocate memory for attachment metadata.", 0, <<>>),
                      r, <<>>)
    ELSE IF ~alloc.encode_ok
        THEN Ingested(Unregistered(src, mime_type, state), "encode",
                      Msg("Error: Failed to base64 encode attachment data.", 0, <<>>),
                      r, SubSeq(r.buffer, 1, r.total_read))
    ELSE Ingested(Registered(src, mime_type, state, base64_encode(SubSeq(r.buffer, 1, r.total_read))),
                  "attached",
                  Msg("Attached %s (MIME: %s, Size: %zu bytes)", r.total_read, src.filepath),
                  r, SubSeq(r.buffer, 1, r.total_read))

\* handle_attachment_from_stream after the check of the limit
Admitted(src, mime_type, state, alloc) ==
    IF src.is_from_file /\ ~is_path_safe(src.filepath)
        THEN Ingested(state, "unsafe",
                      Msg("Error: Unsafe or absolute file path specified: %s", 0, src.filepath),
                      NewRead, <<>>)
    ELSE IF src.is_from_file /\ ~src.opens
        THEN Ingested(state, "open", Msg("Error opening file", 0, <<>>), NewRead, <<>>)
    ELSE IF src.is_from_file /\ Len(src.data) <= 0
        THEN Ingested(state, "empty",
                      Msg("Warning: File '%s' is empty. Attachment skipped.", 0, src.filepath),
                      NewRead, <<>>)
    ELSE IF ~alloc.malloc_ok
        THEN Ingested(state, "malloc",
                      Msg("Error: Initial malloc failed for attachment buffer.", 0, <<>>),
                      NewRead, <<>>)
    ELSE AfterReading(src, mime_type, state, alloc, ReadLoop(src.data, alloc, NewRead))

\* The ingestion without the check of the limit.
Ingestion_unlimited(src, mime_type, state, alloc) == Admitted(src, mime_type, state, alloc)

\* handle_attachment_from_stream with the allocations alloc: every check that
\* fails returns without registering anything; otherwise the part is registered.
Ingestion(src, mime_type, state, alloc) ==
    IF state.num_attached_parts >= ATTACHMENT_LIMIT
        THEN Ingested(state, "limit",
                      Msg("Error: Attachment limit of %d reached.", ATTACHMENT_LIMIT, <<>>),
                      NewRead, <<>>)
    ELSE Admitted(src, mime_type, state, alloc)

\* handle_attachment_from_stream, its allocations succeeding
handle_attachment_from_stream(src, mime_type, state) ==
    Ingestion(src, mime_type, state, AllocOK).state

\* ---------------------------------------------------------------- the call
\* CURLcode values of the transport (curl/curl.h) that the model tells apart
CURLE_OK == 0

CURLE_FAILED_INIT == 2

CURLE_COULDNT_CONNECT == 7

CURLE_PARTIAL_FILE == 18

CURLE_WRITE_ERROR == 23

\* One exchange with the server as the transport sees it: the HTTP status (0
\* when none was obtained), the bytes of the response body, the offset at which
\* the body is split into two chunks (0: one chunk), the CURLcode the
\* transfer ends with when no callback stops it, and the number of the callback
\* whose realloc fails (0: none).
Exchange(status, body, cut, res, realloc_fail_at) ==
    [status |-> status, body |-> body, cut |-> cut, res |-> res,
     realloc_fail_at |-> realloc_fail_at]

\* the chunks in which the transport delivers the body of an exchange
ChunksOf(exchange) ==
    IF exchange.body = <<>> THEN <<>>
    ELSE IF exchange.cut >= 1 /\ exchange.cut < Len(exchange.body)
        THEN << SubSeq(exchange.body, 1, exchange.cut),
                SubSeq(exchange.body, exchange.cut + 1, Len(exchange.body)) >>
    ELSE << exchange.body >>

RECURSIVE WriteChunks(_, _, _, _), AfterWrite(_, _, _, _)
\* The transport calls the write callback on chunk after chunk (i: the number
\* of the next call) and stops at the first return that is not the chunk's size.
WriteChunks(chunks, chunk, i, realloc_fail_at) ==
    IF chunks = <<>> THEN [mem |-> chunk, aborted |-> FALSE]
    ELSE AfterWrite(chunks, write_memory_callback(chunk, Head(chunks), i # realloc_fail_at),
                    i, realloc_fail_at)

\* r: what the callback returned on the first of chunks
AfterWrite(chunks, r, i, realloc_fail_at) ==
    IF r.ret # Len(Head(chunks)) THEN [mem |-> r.mem, aborted |-> TRUE]
    ELSE WriteChunks(Tail(chunks), r.mem, i + 1, realloc_fail_at)

\* curl_easy_perform and curl_easy_getinfo(CURLINFO_RESPONSE_CODE): the body of
\* the exchange goes through the callback, whatever the status; the result is
\* CURLE_WRITE_ERROR when a callback stopped the transfer.
Transferred(exchange, w) ==
    [mem |-> w.mem,
     res |-> IF w.aborted THEN CURLE_WRITE_ERROR ELSE exchange.res,
     http_code |-> exchange.status]

curl_easy_perform(exchange, chunk) ==
    Transferred(exchange, WriteChunks(ChunksOf(exchange), chunk, 1, exchange.realloc_fail_at))

\* a variant that returns the status whatever the transfer came to
Performed_status_only(t) ==
    [http_code |-> t.http_code, mem |-> t.mem, res |-> t.res, invocations |-> 1]

\* if (res != CURLE_OK && http_code == 0) http_code = -res; return http_code;
\* with the value returned: the decoder afterwards, the CURLcode and the number
\* of transfers made.
Performed(t) ==
    [http_code |-> IF t.res # CURLE_OK /\ t.http_code = 0 THEN -t.res ELSE t.http_code,
     mem |-> t.mem, res |-> t.res, invocations |-> 1]

\* a variant that makes the transfer a second time when the first did not end
\* with status 200
perform_api_curl_request_again(env, chunk) ==
    IF ~env.curl_init_ok
        THEN [http_code |-> -CURLE_FAILED_INIT, mem |-> chunk, res |-> CURLE_FAILED_INIT,
              invocations |-> 0]
    ELSE [Performed(curl_easy_perform(env.script[1], chunk)) EXCEPT
              !.invocations = IF Performed(curl_easy_perform(env.script[1], chunk)).http_code = 200
                              THEN 1 ELSE 2]

\* perform_api_curl_request: one transfer (the first exchange of the script of
\* the environment), whose status is returned, or minus the CURLcode when the
\* transfer failed and no status was obtained.
perform_api_curl_request(env, chunk) ==
    IF ~env.curl_init_ok
        THEN [http_code |-> -CURLE_FAILED_INIT, mem |-> chunk, res |-> CURLE_FAILED_INIT,
              invocations |-> 0]
    ELSE Performed(curl_easy_perform(env.script[1], chunk))

\* What send_api_request leaves to its caller: the value returned,
\* *full_response_out, and for the record the status, the CURLcode, the number
\* of transfers, what was printed to stdout, the response the decoder had
\* accumulated at the end, whether the transport was reached and what was
\* printed to stderr.
CallResult(success, full_response_out, p, transported, stderr) ==
    [success |-> success, full_response_out |-> full_response_out,
     http_code |-> p.http_code, res |-> p.res, invocations |-> p.invocations,
     stdout |-> p.mem.stdout,
     full_response |-> SubSeq(p.mem.full_response, 1, p.mem.full_response_size),
     transported |-> transported, stderr |-> stderr]

\* strchr(error_buffer, '{'): the offset of the first brace, 0 when none
FirstBrace(error_buffer) ==
    IF \E i \in 1 .. Len(error_buffer) : error_buffer[i] = "{"
        THEN CHOOSE i \in 1 .. Len(error_buffer) :
                 /\ error_buffer[i] = "{"
                 /\ \A j \in 1 .. i - 1 : error_buffer[j] # "{"
    ELSE 0

\* the message of error.message when root holds one that is a string
ErrorMessageOf(root) ==
    IF root = JNULL THEN <<>>
    ELSE IF cJSON_GetObjectItem(root, "error") = JNULL THEN <<>>
    ELSE IF cJSON_IsString(cJSON_GetObjectItem(cJSON_GetObjectItem(root, "error"), "message"))
        THEN << Msg("API Error Message: %s", 0,
                    cJSON_GetObjectItem(cJSON_GetObjectItem(root, "error"), "message").valuestring) >>
    ELSE <<>>

\* parse_and_print_error_json: what it prints for the buffer it is given
parse_and_print_error_json(error_buffer) ==
    IF error_buffer = NULL THEN <<>>
    ELSE IF FirstBrace(error_buffer) = 0 THEN << Msg("API Error: %s", 0, error_buffer) >>
    ELSE ErrorMessageOf(cJSON_Parse(SubSeq(error_buffer, FirstBrace(error_buffer),
                                           Len(error_buffer))))

\* the else branch of send_api_request: the status, the transport's error when
\* the status is negative, and parse_and_print_error_json(chunk.buffer), the
\* buffer being what write_memory_callback left in it
FailureReport(p) ==
    << Msg("API call failed (HTTP code: %ld)", p.http_code, <<>>) >>
    \o (IF p.http_code < 0 THEN << Msg("Curl error: %s", -p.http_code, <<>>) >> ELSE <<>>)
    \o parse_and_print_error_json(SubSeq(p.mem.buffer, 1, p.mem.size))

\* the message of a set-up that failed (of the four, the one that applies)
SetUpReport == << Msg("Error: Failed to ...", 0, <<>>) >>

\* send_api_request: nothing is sent when the request cannot be built, printed,
\* compressed or the chunk allocated (local_ok); otherwise the response
\* accumulated by the decoder is handed over exactly when the value of
\* perform_api_curl_request is 200.
\* the call that never reached perform_api_curl_request
NotPerformed == [http_code |-> 0, res |-> CURLE_OK, invocations |-> 0, mem |-> NewDecoder]

\* a variant that hands the response over whenever a status was obtained
HandOver_any_status(p) ==
    IF p.http_code > 0
        THEN CallResult(TRUE, SubSeq(p.mem.full_response, 1, p.mem.full_response_size), p, TRUE,
                        <<>>)
    ELSE CallResult(FALSE, NULL, p, TRUE, FailureReport(p))

\* if (http_code == 200) { *full_response_out = chunk.full_response; success = true; }
HandOver(p) ==
    IF p.http_code = 200
        THEN CallResult(TRUE, SubSeq(p.mem.full_response, 1, p.mem.full_response_size), p, TRUE,
                        <<>>)
    ELSE CallResult(FALSE, NULL, p, TRUE, FailureReport(p))

\* send_api_request that goes on to the transfer whatever the set-up gave
send_api_request_unchecked(env) == HandOver(perform_api_curl_request(env, NewDecoder))

send_api_request(env) ==
    IF ~env.local_ok THEN CallResult(FALSE, NULL, NotPerformed, FALSE, SetUpReport)
    ELSE HandOver(perform_api_curl_request(env, NewDecoder))

\* ------------------------------------------------------- a prompt submission
\* total_parts_this_turn
TotalParts(state, p) == state.num_attached_parts + (IF Len(p) > 0 THEN 1 ELSE 0)

\* current_turn_parts: the pending attachments, then the text when there is one
CurrentTurnParts(state, p) ==
    SubSeq(state.attached_parts, 1, state.num_attached_parts)
    \o (IF Len(p) > 0 THEN << TextPart(p) >> ELSE << >>)

\* add_content_to_history(&state.history, "user", current_turn_parts, total);
\* free_pending_attachments(&state);
UserTurnAdded(state, p) ==
    free_pending_attachments(
        [state EXCEPT !.history =
            add_content_to_history(@, "user", CurrentTurnParts(state, p), TotalParts(state, p))])

\* What follows the return without the rollback: a failed call leaves the
\* user turn in the history.
Completed_keeps_turn(state, r) ==
    IF r.success
        THEN [state EXCEPT
                 !.last_model_response = r.full_response_out,
                 !.history = add_content_to_history(@, "model",
                                 << TextPart(strdup(r.full_response_out)) >>, 1)]
    ELSE state

\* What follows the return r of send_api_request: the response kept and added
\* as the model's turn, or the last turn taken back.
Completed(state, r) ==
    IF r.success
        THEN [state EXCEPT
                 !.last_model_response = r.full_response_out,
                 !.history = add_content_to_history(@, "model",
                                 << TextPart(strdup(r.full_response_out)) >>, 1)]
    ELSE IF state.history.num_contents > 0
        THEN [state EXCEPT !.history = RemoveLastContent(@)]
    ELSE state

\* The submission of the text p (the rest of an interactive line, or the
\* prompt of the command line, which is not empty) in the environment env.
Submission(state, p, env) ==
    IF TotalParts(state, p) = 0 THEN state
    ELSE Completed(UserTurnAdded(state, p), send_api_request(env))

\* get_token_count, in an environment that tells whether the request could be
\* built and compressed, the value of perform_api_curl_request, and whether
\* the answer holds a number totalTokens and which: that number, or -1
get_token_count(state, tokens_env) ==
    IF ~tokens_env.local_ok THEN -1
    ELSE IF tokens_env.http_code = 200 /\ tokens_env.is_number THEN tokens_env.totalTokens
    ELSE -1

\* /stats up to the call of get_token_count: the pending attachments become a
\* turn of the history for the time of the call
StatsBefore(state) ==
    IF state.num_attached_parts > 0
        THEN [state EXCEPT !.history =
                 add_content_to_history(@, "user", state.attached_parts, state.num_attached_parts)]
    ELSE state

\* /stats after the call, without the removal of the temporary turn
StatsAfter_kept(state) == state

\* /stats after the call: free_content of the last turn, num_contents--
StatsAfter(state) ==
    IF state.num_attached_parts > 0
        THEN [state EXCEPT !.history = RemoveLastContent(@)]
    ELSE state

\* /history attachments remove that takes a part of any type
HistoryAttachmentsRemove_any_type(state, msg_idx, part_idx) ==
    IF msg_idx < 0 \/ msg_idx >= state.history.num_contents THEN state
    ELSE IF part_idx < 0 \/ part_idx >= state.history.contents[msg_idx + 1].num_parts THEN state
    ELSE [state EXCEPT !.history.contents[msg_idx + 1] = RemovePart(@, part_idx)]

\* /history attachments remove msg_idx:part_idx
HistoryAttachmentsRemove(state, msg_idx, part_idx) ==
    IF msg_idx < 0 \/ msg_idx >= state.history.num_contents THEN state
    ELSE IF part_idx < 0 \/ part_idx >= state.history.contents[msg_idx + 1].num_parts THEN state
    ELSE IF state.history.contents[msg_idx + 1].parts[part_idx + 1].type # "PART_TYPE_FILE" THEN state
    ELSE [state EXCEPT !.history.contents[msg_idx + 1] = RemovePart(@, part_idx)]

\* /attachments remove index
AttachmentsRemove(state, index) ==
    IF index < 0 \/ index >= state.num_attached_parts THEN state
    ELSE [state EXCEPT
             !.attached_parts =
                 SubSeq(@, 1, index) \o SubSeq(@, index + 2, state.num_attached_parts),
             !.num_attached_parts = @ - 1]

\* ------------------------------------------------------- the configuration
\* json_read_string, json_read_int, json_read_float, json_read_bool and
\* json_read_strdup: the target after the call.  The strings of the model are
\* shorter than the buffers they are copied to.  A number that stands for a
\* temperature holds it in hundredths.
json_read_string(obj, key, buffer) ==
    IF cJSON_IsString(cJSON_GetObjectItem(obj, key))
        THEN cJSON_GetObjectItem(obj, key).valuestring
    ELSE buffer

json_read_float(obj, key, target) ==
    IF cJSON_IsNumber(cJSON_GetObjectItem(obj, key))
        THEN cJSON_GetObjectItem(obj, key).valueint
    ELSE target

json_read_int(obj, key, target) ==
    IF cJSON_IsNumber(cJSON_GetObjectItem(obj, key))
        THEN cJSON_GetObjectItem(obj, key).valueint
    ELSE target

json_read_bool(obj, key, target) ==
    IF cJSON_IsBool(cJSON_GetObjectItem(obj, key))
        THEN cJSON_IsTrue(cJSON_GetObjectItem(obj, key))
    ELSE IF cJSON_IsNumber(cJSON_GetObjectItem(obj, key))
        THEN cJSON_GetObjectItem(obj, key).valueint # 0
    ELSE target

json_read_strdup(obj, key, target) ==
    IF cJSON_IsString(cJSON_GetObjectItem(obj, key))
        THEN strdup(cJSON_GetObjectItem(obj, key).valuestring)
    ELSE target

\* load_configuration, root being what cJSON_Parse made of the configuration
\* file (NULL when there is no file, or none that can be read and parsed)
load_configuration(state, root) ==
    IF ~cJSON_IsObject(root) THEN state
    ELSE [state EXCEPT
             !.model_name = json_read_string(root, "model", @),
             !.temperature = json_read_float(root, "temperature", @),
             !.seed = json_read_int(root, "seed", @),
             !.system_prompt = json_read_strdup(root, "system_prompt", @),
             !.api_key = json_read_string(root, "api_key", @),
             !.origin = json_read_string(root, "origin", @),
             !.max_output_tokens = json_read_int(root, "max_output_tokens", @),
             !.thinking_budget = json_read_int(root, "thinking_budget", @),
             !.google_grounding = json_read_bool(root, "google_grounding", @),
             !.url_context = json_read_bool(root, "url_context", @)]

\* The arguments of the command line and the rest of an interactive line are
\* strings; the numerals among them, with their values:
Numerals == {"0", "5", "-5", "20000"}

\* strtol and atoi on the modelled strings: the value of a numeral, and 0 for a
\* string that does not start with one
atoi(string) ==
    CASE string = "5"     -> 5
      [] string = "-5"    -> -5
      [] string = "20000" -> 20000
      [] OTHER            -> 0

\* atof, in hundredths
atof(string) == IF string = "0.5" THEN 50 ELSE 100 * atoi(string)

\* the model name an argument gives
ModelNameOf(string) ==
    IF string = "gemini-2.5-flash" THEN <<"gemini-2.5-", "flash">> ELSE <<string>>

\* STRCASECMP(arg, short) == 0 || STRCASECMP(arg, long) == 0, the modelled
\* arguments being in lower case
IsOption(arg, short, long) == arg \in {short, long}

RECURSIVE parse_options_from(_, _, _)
\* the loop of parse_common_options from argv[i] on: the state at the end, the
\* index returned and whether the program exited (--help)
parse_options_from(argv, i, state) ==
    IF i > Len(argv) THEN [state |-> state, index |-> i, exited |-> FALSE]
    ELSE IF IsOption(argv[i], "-m", "--model") /\ i + 1 <= Len(argv)
        THEN parse_options_from(argv, i + 2,
                 [state EXCEPT !.model_name = ModelNameOf(argv[i + 1])])
    ELSE IF IsOption(argv[i], "-t", "--temp") /\ i + 1 <= Len(argv)
        THEN parse_options_from(argv, i + 2, [state EXCEPT !.temperature = atof(argv[i + 1])])
    ELSE IF IsOption(argv[i], "-s", "--seed") /\ i + 1 <= Len(argv)
        THEN parse_options_from(argv, i + 2, [state EXCEPT !.seed = atoi(argv[i + 1])])
    ELSE IF IsOption(argv[i], "-o", "--max-tokens") /\ i + 1 <= Len(argv)
        THEN parse_options_from(argv, i + 2,
                 [state EXCEPT !.max_output_tokens = atoi(argv[i + 1])])
    ELSE IF IsOption(argv[i], "-b", "--budget") /\ i + 1 <= Len(argv)
        THEN parse_options_from(argv, i + 2,
                 [state EXCEPT !.thinking_budget = atoi(argv[i + 1])])
    ELSE IF IsOption(argv[i], "-ng", "--no-grounding")
        THEN parse_options_from(argv, i + 1, [state EXCEPT !.google_grounding = FALSE])
    ELSE IF IsOption(argv[i], "-nu", "--no-url-context")
        THEN parse_options_from(argv, i + 1, [state EXCEPT !.url_context = FALSE])
    ELSE IF IsOption(argv[i], "-h", "--help")
        THEN [state |-> state, index |-> i, exited |-> TRUE]
    ELSE [state |-> state, index |-> i, exited |-> FALSE]

\* parse_common_options; argv[1] of the program is element 1 of argv
parse_common_options(argv, state) == parse_options_from(argv, 1, state)

\* if ((strstr(state.model_name, "flash") != NULL) && (state.thinking_budget > 16384))
FlashBudget(state) ==
    IF (\E i \in 1 .. Len(state.model_name) : state.model_name[i] = "flash")
       /\ state.thinking_budget > 16384
        THEN [state EXCEPT !.thinking_budget = 16384]
    ELSE state

\* The key of the session: GEMINI_API_KEY when it is set, else the key of the
\* configuration file, else what get_api_key_securely reads from the terminal
\* (typed, empty when nothing is entered or nothing can be read).
ApiKey(state, key_from_env, typed) ==
    IF key_from_env # NULL THEN [state EXCEPT !.api_key = key_from_env]
    ELSE IF state.api_key = <<>> THEN [state EXCEPT !.api_key = typed]
    ELSE state

\* GEMINI_API_KEY_ORIGIN
Origin(state, origin_from_env) ==
    IF origin_from_env # NULL THEN [state EXCEPT !.origin = origin_from_env] ELSE state

\* generate_session between the arguments and the first request
StartUp(state, key_from_env, typed, origin_from_env) ==
    Origin(ApiKey(FlashBudget(state), key_from_env, typed), origin_from_env)

\* /budget with the rest of the line arg_start
Budget(state, arg_start) ==
    IF arg_start = "" THEN state
    ELSE IF arg_start \notin Numerals \/ atoi(arg_start) < 0 THEN state
    ELSE IF atoi(arg_start) < 1 THEN [state EXCEPT !.thinking_budget = -1]
    ELSE [state EXCEPT !.thinking_budget = atoi(arg_start)]

\* ------------------------------------------------------------- the request
\* {"parts": [{"text": system_prompt}]}
SystemInstruction(system_prompt) ==
    cJSON_AddItemToObject(cJSON_CreateObject, "parts",
        cJSON_AddItemToArray(cJSON_CreateArray,
            cJSON_AddStringToObject(cJSON_CreateObject, "text", system_prompt)))

\* the item of one part: a text, or the inline data of a file
PartItem(current_part) ==
    IF current_part.type = "PART_TYPE_TEXT"
        THEN IF current_part.text # NULL
                 THEN cJSON_AddStringToObject(cJSON_CreateObject, "text", current_part.text)
             ELSE cJSON_CreateObject
    ELSE cJSON_AddItemToObject(cJSON_CreateObject, "inlineData",
             cJSON_AddStringToObject(
                 cJSON_AddStringToObject(cJSON_CreateObject, "mimeType", current_part.mime_type),
                 "data", current_part.base64_data))

\* the item of one turn: its role and its parts
ContentItem(content) ==
    cJSON_AddItemToObject(
        cJSON_AddStringToObject(cJSON_CreateObject, "role", <<content.role>>),
        "parts",
        [cJSON_CreateArray EXCEPT
            !.child = [j \in 1 .. content.num_parts |-> PartItem(content.parts[j])]])

\* the array of the turns of the history
Contents(history) ==
    [cJSON_CreateArray EXCEPT
        !.child = [i \in 1 .. history.num_contents |-> ContentItem(history.contents[i])]]

\* {"urlContext": {}} and {"googleSearch": {}}
Tool(name) == cJSON_AddItemToObject(cJSON_CreateObject, name, cJSON_CreateObject)

\* the array of the tools, inside the test of line 1304
ToolsArray(state) ==
    [cJSON_CreateArray EXCEPT
        !.child = (IF state.url_context THEN << Tool("urlContext") >> ELSE <<>>)
                  \o (IF state.google_grounding THEN << Tool("googleSearch") >> ELSE <<>>)]

WithSystemInstruction(root, state) ==
    IF state.system_prompt # NULL
        THEN cJSON_AddItemToObject(root, "systemInstruction",
                                   SystemInstruction(state.system_prompt))
    ELSE root

\* if (state->url_context && state->google_grounding) { ... }
WithTools(root, state) ==
    IF state.url_context /\ state.google_grounding
        THEN cJSON_AddItemToObject(root, "tools", ToolsArray(state))
    ELSE root

WithContents(root, state) == cJSON_AddItemToObject(root, "contents", Contents(state.history))

\* {"thinkingBudget": thinking_budget}
ThinkingConfig(state) ==
    cJSON_AddNumberToObject(cJSON_CreateObject, "thinkingBudget", state.thinking_budget)

GenerationConfig(state) ==
    cJSON_AddItemToObject(
        cJSON_AddNumberToObject(
            cJSON_AddNumberToObject(
                cJSON_AddNumberToObject(cJSON_CreateObject, "temperature", state.temperature),
                "maxOutputTokens", state.max_output_tokens),
            "seed", state.seed),
        "thinkingConfig", ThinkingConfig(state))

WithGenerationConfig(root, state) ==
    cJSON_AddItemToObject(root, "generationConfig", GenerationConfig(state))

\* build_request_json (the allocations of cJSON succeed)
build_request_json(state) ==
    WithGenerationConfig(
        WithContents(
            WithTools(WithSystemInstruction(cJSON_CreateObject, state), state),
            state),
        state)

\* a variant of the payload of get_token_count that keeps the tools
CountTokensPayload_with_tools(state) ==
    cJSON_DeleteItemFromObject(build_request_json(state), "generationConfig")

\* get_token_count, lines 1362-1364: the request without generationConfig and
\* tools
CountTokensPayload(state) ==
    cJSON_DeleteItemFromObject(
        cJSON_DeleteItemFromObject(build_request_json(state), "generationConfig"), "tools")

\* ------------------------------------------------------- saving and loading
\* save_history_to_file: what fputs writes, the file being open
save_history_to_file(state) == cJSON_Print(build_request_json(state))

\* What load_history_from_file finds in a slot of loaded_parts that it has
\* not written: the slot comes from malloc. Either the process does not
\* survive the use of the slot: add_content_to_history gives strdup a
\* pointer that is NULL (a slot of zero bytes) or leads nowhere, or the loop
\* after it frees what is no allocation. Or the slot reads as a part whose
\* pointers lead to some string that was there before, and whose type is
\* that of a text, that of a file, or an int that is neither.
Crash == Part("<crash>", NULL, NULL, NULL, NULL)

Stale == <<"<stale>">>

Uninitialised ==
    { Crash,
      Part("<neither>", Stale, Stale, Stale, NULL),
      Part("PART_TYPE_TEXT", Stale, Stale, Stale, NULL),
      Part("PART_TYPE_FILE", Stale, Stale, Stale, NULL),
      Part("PART_TYPE_FILE", Stale, Stale, Stale, Stale) }

\* is the part item one that load_history_from_file reads as a text, or as
\* the inline data of a file
IsTextItem(part_item) == cJSON_IsString(cJSON_GetObjectItem(part_item, "text"))

IsFileItem(part_item) ==
    /\ cJSON_GetObjectItem(part_item, "inlineData") # JNULL
    /\ cJSON_IsString(cJSON_GetObjectItem(cJSON_GetObjectItem(part_item, "inlineData"), "mimeType"))
    /\ cJSON_IsString(cJSON_GetObjectItem(cJSON_GetObjectItem(part_item, "inlineData"), "data"))

\* loaded_parts[part_idx] after the pass of the loop for part_item; slot is
\* what the memory held
LoadedPart(part_item, slot) ==
    IF IsTextItem(part_item)
        THEN Part("PART_TYPE_TEXT", strdup(cJSON_GetObjectItem(part_item, "text").valuestring),
                  NULL, NULL, NULL)
    ELSE IF IsFileItem(part_item)
        THEN Part("PART_TYPE_FILE", NULL,
                  strdup(cJSON_GetObjectItem(cJSON_GetObjectItem(part_item, "inlineData"),
                                             "mimeType").valuestring),
                  strdup(cJSON_GetObjectItem(cJSON_GetObjectItem(part_item, "inlineData"),
                                             "data").valuestring),
                  NULL)
    ELSE slot

\* the parts loaded for one item of contents
LoadedParts(parts_array, slot) ==
    [j \in 1 .. Len(parts_array.child) |-> LoadedPart(parts_array.child[j], slot)]

\* is the item of contents one that the loop does not skip
IsTurnItem(content_item) ==
    /\ cJSON_IsString(cJSON_GetObjectItem(content_item, "role"))
    /\ cJSON_IsArray(cJSON_GetObjectItem(content_item, "parts"))

\* the role of a turn: the string of the document
RoleOf(role_json) == NameOf(role_json.valuestring)

\* cJSON_ArrayForEach(content_item, contents): the history after the items
\* from number i on
RECURSIVE LoadedContents(_, _, _, _)
LoadedContents(history, items, i, slot) ==
    IF i > Len(items) THEN history
    ELSE IF ~IsTurnItem(items[i]) THEN LoadedContents(history, items, i + 1, slot)
    ELSE LoadedContents(
             add_content_to_history(history, RoleOf(cJSON_GetObjectItem(items[i], "role")),
                 LoadedParts(cJSON_GetObjectItem(items[i], "parts"), slot),
                 Len(cJSON_GetObjectItem(items[i], "parts").child)),
             items, i + 1, slot)

\* the text of the system instruction of a document, NULL when it has none
\* of the expected shape
LoadedSystemPrompt(root) ==
    IF /\ cJSON_IsObject(cJSON_GetObjectItem(root, "systemInstruction"))
       /\ cJSON_IsArray(cJSON_GetObjectItem(cJSON_GetObjectItem(root, "systemInstruction"), "parts"))
       /\ cJSON_IsObject(cJSON_GetArrayItem(
              cJSON_GetObjectItem(cJSON_GetObjectItem(root, "systemInstruction"), "parts"), 0))
       /\ cJSON_IsString(cJSON_GetObjectItem(cJSON_GetArrayItem(
              cJSON_GetObjectItem(cJSON_GetObjectItem(root, "systemInstruction"), "parts"), 0),
              "text"))
        THEN cJSON_GetObjectItem(cJSON_GetArrayItem(
                 cJSON_GetObjectItem(cJSON_GetObjectItem(root, "systemInstruction"), "parts"), 0),
                 "text").valuestring
    ELSE NULL

\* does the loading of root use a slot of loaded_parts it has not written
UsesUnwritten(root) ==
    /\ cJSON_IsObject(root)
    /\ cJSON_IsArray(cJSON_GetObjectItem(root, "contents"))
    /\ \E i \in 1 .. Len(cJSON_GetObjectItem(root, "contents").child) :
           LET content_item == cJSON_GetObjectItem(root, "contents").child[i] IN
           /\ IsTurnItem(content_item)
           /\ \E j \in 1 .. Len(cJSON_GetObjectItem(content_item, "parts").child) :
                  LET part_item == cJSON_GetObjectItem(content_item, "parts").child[j] IN
                  ~IsTextItem(part_item) /\ ~IsFileItem(part_item)

\* the system prompt after the loading of root: that of the document when it
\* has one, else the one there was
WithLoadedSystemPrompt(state, root) ==
    IF LoadedSystemPrompt(root) # NULL
        THEN [state EXCEPT !.system_prompt = strdup(LoadedSystemPrompt(root))]
    ELSE state

\* load_history_from_file from the parsed document root on
Loaded(state, root, slot) ==
    IF ~cJSON_IsObject(root) THEN state
    ELSE IF ~cJSON_IsArray(cJSON_GetObjectItem(root, "contents"))
        THEN [state EXCEPT !.history = free_history(@)]
    ELSE WithLoadedSystemPrompt(
             [state EXCEPT !.history =
                 LoadedContents(free_history(@), cJSON_GetObjectItem(root, "contents").child,
                                1, slot)],
             root)

\* load_history_from_file of a file that holds text; slot: what a slot of
\* loaded_parts holds that the loop does not write
load_history_from_file(state, text, slot) == Loaded(state, cJSON_Parse(text), slot)

\* One header line of the request: its name and its value.
Header(name, value) == [name |-> name, value |-> value]

\* The headers perform_api_curl_request gives the transfer: the key always,
\* the origin unless it is "default".
RequestHeaders(state) ==
    << Header("Content-Type", <<"application/json">>),
       Header("Content-Encoding", <<"gzip">>),
       Header("x-goog-api-key", state.api_key) >>
    \o (IF state.origin # <<"default">> THEN << Header("Origin", state.origin) >> ELSE <<>>)

\* API_URL_FORMAT with the name of the model and the endpoint
RequestUrl(state, endpoint) ==
    <<"https://generativelanguage.googleapis.com/v1beta/models/">>
    \o state.model_name \o <<":", endpoint>>

\* ------------------------------------------------- the modelled environments
\* the body of an error response: a JSON document over several lines
ErrorBody ==
    <<"{", NL, "\"error\"", ":", "{", "\"message\"", ":", "\"x\"", "}", NL, "}", NL>>

\* the body of a streamed answer: two events, the second of two parts
AnswerBody == Wire(<< EventLine(<<"\"x\"">>), <<>>, EventLine(<<"\"y\"", "\"x\"">>), <<>> >>)

\* the same document on one line, without a newline at its end
ErrorLine == <<"{", "\"error\"", ":", "{", "\"message\"", ":", "\"x\"", "}", "}">>

\* the exchanges that end the transfer with a status of no success
RefusedExchanges ==
    { Exchange(status, body, cut, CURLE_OK, 0) :
          status \in {400, 401, 403, 503}, body \in {ErrorBody, ErrorLine}, cut \in {0, 4} }

\* the exchanges without a status: the transfer failed before
FailedExchanges == { Exchange(0, <<>>, 0, CURLE_COULDNT_CONNECT, 0) }

\* the exchanges with status 200: the whole answer or its first bytes only (the
\* connection broke: CURLE_PARTIAL_FILE), in one chunk or two, the realloc of
\* the first or second callback failing or none
AnsweredExchanges ==
    { Exchange(200, AnswerBody, cut, CURLE_OK, fail) : cut \in {0, 20}, fail \in 0 .. 2 }
    \cup { Exchange(200, SubSeq(AnswerBody, 1, n), 0, CURLE_PARTIAL_FILE, 0) :
              n \in {0, 20, Len(EventLine(<<"\"x\"">>)) + 1} }
    \cup { Exchange(200, <<>>, 0, CURLE_OK, 0) }

Exchanges == RefusedExchanges \cup FailedExchanges \cup AnsweredExchanges

Unavailable == Exchange(503, ErrorBody, 0, CURLE_OK, 0)

\* the scripts of the server: k times 503, then one more exchange
Scripts(n) ==
    { [i \in 1 .. k + 1 |-> IF i <= k THEN Unavailable ELSE last] :
          k \in 0 .. n, last \in Exchanges }

CallEnvs ==
    { [local_ok |-> l, curl_init_ok |-> c, script |-> sc] :
          l \in BOOLEAN, c \in BOOLEAN, sc \in Scripts(MaxUnavailable) }

\* ---------------------------------------------- the session: Spec
\* the texts of the prompts
Prompts == { <<"hello">> }

\* the files named on the command line or after /attach: a picture, a path
\* out of the directory, an empty file, a file that does not open, a file
\* whose reading fails
FileSources ==
    { Source(<<"a", ".", "P", "n", "g">>, TRUE, TRUE, <<137, 80, 78, 71>>, FALSE),
      Source(<<".", ".", "/", "s">>, TRUE, TRUE, <<104>>, FALSE),
      Source(<<"e", ".", "c">>, TRUE, TRUE, <<>>, FALSE),
      Source(<<"g", ".", "g", "i", "f">>, TRUE, FALSE, <<>>, FALSE),
      Source(<<"r", ".", "p", "d", "f">>, TRUE, TRUE, <<37>>, TRUE) }

\* what stdin delivers to /paste or to a run with piped input
StdinSources ==
    { Source(<<"stdin">>, FALSE, TRUE, <<104>>, FALSE),
      Source(<<"stdin">>, FALSE, TRUE, <<>>, FALSE),
      Source(<<"stdin">>, FALSE, TRUE, <<104>>, TRUE) }

\* the environments of the calls of a session: the request cannot be built;
\* the answer in two chunks; 503; no connection; the connection lost after
\* the first event; an answer without events
SessionEnvs ==
    { [local_ok |-> FALSE, curl_init_ok |-> TRUE,
       script |-> << Exchange(200, AnswerBody, 0, CURLE_OK, 0) >>],
      [local_ok |-> TRUE, curl_init_ok |-> TRUE,
       script |-> << Exchange(200, AnswerBody, 20, CURLE_OK, 0) >>],
      [local_ok |-> TRUE, curl_init_ok |-> TRUE, script |-> << Unavailable >>],
      [local_ok |-> TRUE, curl_init_ok |-> TRUE,
       script |-> << Exchange(0, <<>>, 0, CURLE_COULDNT_CONNECT, 0) >>],
      [local_ok |-> TRUE, curl_init_ok |-> TRUE,
       script |-> << Exchange(200, SubSeq(AnswerBody, 1, Len(EventLine(<<"\"x\"">>)) + 1),
                              0, CURLE_PARTIAL_FILE, 0) >>],
      [local_ok |-> TRUE, curl_init_ok |-> TRUE,
       script |-> << Exchange(200, <<>>, 0, CURLE_OK, 0) >>] }

\* the environments of the token-count calls
TokenEnvs ==
    { [local_ok |-> TRUE, http_code |-> 200, is_number |-> TRUE, totalTokens |-> 7],
      [local_ok |-> TRUE, http_code |-> 200, is_number |-> FALSE, totalTokens |-> -1],
      [local_ok |-> TRUE, http_code |-> 503, is_number |-> FALSE, totalTokens |-> -1] }

\* One operation on the store, for the record of the operations applied.
OpAppend(num_parts) == [op |-> "append", n |-> num_parts, at |-> 0]

OpRemoveLast == [op |-> "remove-last", n |-> 0, at |-> 0]

OpRemovePart(msg_idx) == [op |-> "remove-part", n |-> 0, at |-> msg_idx]

OpClear == [op |-> "clear", n |-> 0, at |-> 0]

\* The part counts of the turns after one operation, and after a list of them.
ApplyOp(counts, op) ==
    CASE op.op = "append"      -> Append(counts, op.n)
      [] op.op = "remove-last" -> SubSeq(counts, 1, Len(counts) - 1)
      [] op.op = "remove-part" -> [counts EXCEPT ![op.at + 1] = @ - 1]
      [] op.op = "clear"       -> << >>

RECURSIVE ApplyOps(_, _)
ApplyOps(counts, ops) ==
    IF ops = << >> THEN counts ELSE ApplyOps(ApplyOp(counts, Head(ops)), Tail(ops))

\* What the last step of the session did: its kind, whether its call
\* succeeded, the parts it submitted and the response its decoder accumulated.
LastOp(kind, success, parts, response) ==
    [kind |-> kind, success |-> success, parts |-> parts, response |-> response]

Did(kind) == LastOp(kind, FALSE, << >>, NULL)

\* nothing saved yet: no document, and the state a save would have been made of
NoDisk == [written |-> FALSE, text |-> <<>>, from |-> initialize_default_state]

\* ------------------------------------------- who owns the strings of a part
\* The allocations that hold the strings of parts, each with a number: live
\* are those not freed; history gives, turn by turn, the allocation of the
\* role and that of each part; pending gives that of each pending
\* attachment; copied lists, for each add_content_to_history of the last
\* step, the allocations of the caller's parts, those it stored, and the
\* allocations live when it returned.
\* A pointer to what is no allocation of a part's strings: the line buffer,
\* the literal of a role, what a slot that was not written holds.
NotHeap == 0

NoHeap == [live |-> {}, history |-> <<>>, pending |-> <<>>, copied |-> <<>>]

\* what n calls of malloc or strdup return: the first n numbers not live
NewIds(live, n) ==
    SubSeq([j \in 1 .. n |->
               CHOOSE x \in (1 .. Cardinality(live) + n) \ live :
                   Cardinality({y \in (1 .. x) \ live : y < x}) = j - 1],
           1, n)

\* the allocations among the pointers ids
Allocations(ids) == {ids[j] : j \in 1 .. Len(ids)} \ {NotHeap}

\* the start of a handler
Started(h) == [h EXCEPT !.copied = <<>>]

\* the registration of an ingested attachment: its strings are allocated
HeapAttach(h) ==
    [h EXCEPT !.live = @ \cup {NewIds(h.live, 1)[1]},
              !.pending = Append(@, NewIds(h.live, 1)[1])]

\* add_content_to_history that keeps the pointers of the caller's parts
HeapAddContent_shared(h, caller) ==
    [h EXCEPT !.live = @ \cup {NewIds(h.live, 1)[1]},
              !.history = Append(@, [role |-> NewIds(h.live, 1)[1], parts |-> caller]),
              !.copied = Append(@, [caller |-> caller, stored |-> caller,
                                    live |-> h.live \cup {NewIds(h.live, 1)[1]}])]

\* add_content_to_history: strdup of the role and of the strings of each of
\* the caller's parts
HeapAddContent(h, caller) ==
    [h EXCEPT !.live = @ \cup Allocations(NewIds(h.live, Len(caller) + 1)),
              !.history = Append(@, [role |-> NewIds(h.live, Len(caller) + 1)[1],
                                     parts |-> SubSeq(NewIds(h.live, Len(caller) + 1),
                                                      2, Len(caller) + 1)]),
              !.copied = Append(@, [caller |-> caller,
                                    stored |-> SubSeq(NewIds(h.live, Len(caller) + 1),
                                                      2, Len(caller) + 1),
                                    live |-> h.live \cup
                                             Allocations(NewIds(h.live, Len(caller) + 1))])]

\* free_pending_attachments
HeapFreePending(h) == [h EXCEPT !.live = @ \ Allocations(h.pending), !.pending = << >>]

\* free_content of the last turn, num_contents--
HeapFreeContent(h) ==
    [h EXCEPT !.live = (@ \ Allocations(h.history[Len(h.history)].parts))
                           \ {h.history[Len(h.history)].role},
              !.history = SubSeq(@, 1, Len(h.history) - 1)]

\* free_history
HeapFreeHistory(h) ==
    [h EXCEPT !.live = @ \ UNION {Allocations(h.history[i].parts) \cup {h.history[i].role} :
                                      i \in 1 .. Len(h.history)},
              !.history = << >>]

\* /history attachments remove of an attachment: its strings are freed and
\* the parts behind it move up
HeapRemovePart(h, msg_idx, part_idx) ==
    [h EXCEPT !.live = @ \ {h.history[msg_idx + 1].parts[part_idx + 1]},
              !.history[msg_idx + 1].parts =
                  SubSeq(@, 1, part_idx) \o SubSeq(@, part_idx + 2, Len(@))]

\* the model's turn: model_part.text = strdup(...), add_content_to_history,
\* free(model_part.text)
HeapModelTurn(h) ==
    [HeapAddContent([h EXCEPT !.live = @ \cup {NewIds(h.live, 1)[1]}],
                    << NewIds(h.live, 1)[1] >>)
        EXCEPT !.live = @ \ {NewIds(h.live, 1)[1]}]

\* a submission: current_turn_parts holds the pointers of the pending
\* attachments, then that of the text in the line; add_content_to_history;
\* free_pending_attachments; then the model's turn or the rollback
HeapSubmission(h, with_text, success) ==
    IF success
        THEN HeapModelTurn(HeapFreePending(HeapAddContent(Started(h),
                 h.pending \o (IF with_text THEN << NotHeap >> ELSE << >>))))
    ELSE HeapFreeContent(HeapFreePending(HeapAddContent(Started(h),
             h.pending \o (IF with_text THEN << NotHeap >> ELSE << >>))))

\* the pointers of loaded_parts for the part items: a new allocation for each
\* item that is read as a text or as a file, in their order
LoadedPointers(live, items) ==
    [j \in 1 .. Len(items) |->
        IF IsTextItem(items[j]) \/ IsFileItem(items[j])
            THEN NewIds(live, j)[Cardinality({k \in 1 .. j :
                                     IsTextItem(items[k]) \/ IsFileItem(items[k])})]
        ELSE NotHeap]

\* one turn loaded: loaded_parts filled, add_content_to_history, and the
\* strings of loaded_parts freed
HeapLoadedTurn(h, items) ==
    [HeapAddContent([h EXCEPT !.live = @ \cup Allocations(LoadedPointers(h.live, items))],
                    SubSeq(LoadedPointers(h.live, items), 1, Len(items)))
        EXCEPT !.live = @ \ Allocations(LoadedPointers(h.live, items))]

\* cJSON_ArrayForEach(content_item, contents) from item i on
RECURSIVE HeapLoadedContents(_, _, _)
HeapLoadedContents(h, items, i) ==
    IF i > Len(items) THEN h
    ELSE IF ~IsTurnItem(items[i]) THEN HeapLoadedContents(h, items, i + 1)
    ELSE HeapLoadedContents(
             HeapLoadedTurn(h, cJSON_GetObjectItem(items[i], "parts").child), items, i + 1)

\* load_history_from_file from the parsed document root on
HeapLoaded(h, root) ==
    IF ~cJSON_IsObject(root) THEN Started(h)
    ELSE IF ~cJSON_IsArray(cJSON_GetObjectItem(root, "contents"))
        THEN HeapFreeHistory(Started(h))
    ELSE HeapLoadedContents(HeapFreeHistory(Started(h)),
                            cJSON_GetObjectItem(root, "contents").child, 1)

\* The record of an ingestion: the ingestions so far (counted up to MaxLarge),
\* its source, its allocations and what handle_attachment_from_stream left.
Ingest(done, count, src, alloc, result) ==
    [done |-> done, count |-> count, src |-> src, alloc |-> alloc, outcome |-> result.outcome,
     stderr |-> result.stderr, read |-> result.read, encoder_input |-> result.encoder_input]

\* no ingestion yet
NoIngestion ==
    Ingest(FALSE, 0, Source(<<>>, FALSE, FALSE, <<>>, FALSE), AllocOK,
           Ingested(initialize_default_state, "none", Msg("", 0, <<>>), NewRead, <<>>))

\* ------------------------------------------------------------------- state
VARIABLES
    wire,      \* decoder: the bytes of the response not yet delivered
    recv,      \* decoder: the bytes the callback has taken so far (history)
    mem,       \* decoder: the decoder state of the transfer
    dpc,       \* decoder: "open", "aborted" (a callback returned short) or "closed"
    spanned,   \* decoder: some parsed line arrived in more than one chunk (history)
    call_env,  \* call: the environment of the call (allocations, the server's script)
    call_ret,  \* call: what send_api_request left to its caller
    cpc,       \* call: "ready" or "returned"
    state,     \* session: the AppState
    interactive, \* session: the run is interactive
    pc,        \* session: "args" (command line), "loop" (waiting for a line) or "exit"
    last_op,   \* session: what the last step did (history)
    net,       \* session: the part counts after the store operations applied (history)
    applied,   \* session: the kinds of store operations applied so far (history)
    rpc,       \* requests: "config", "options", "keys", "loop", "exit" or "off"
    config,    \* requests: the document of the configuration file (history)
    calls,     \* requests: the endpoint, key and outcome of every request so far (history)
    req,       \* requests: the last request and what came of it (history)
    disk,      \* store: the document last written by a save, and the state saved
    heap,      \* store: the allocations the history and the pending list point to
    ing        \* ingestion: the last ingestion, its source and how it ran (history)

decVars == <<wire, recv, mem, dpc, spanned>>

callVars == <<call_env, call_ret, cpc>>

sessVars == <<state, interactive, pc, last_op, net, applied>>

reqVars == <<rpc, config, calls, req>>

storeVars == <<disk, heap>>

ingVars == <<ing>>

vars == <<decVars, callVars, sessVars, reqVars, storeVars, ingVars>>

\* A request as the transfer is given it: the endpoint, the URL, the headers,
\* the payload and the state it was built from; with what came of it: whether
\* the call succeeded, its status, what it printed to stderr and the number of
\* transfers made.
Request(from, endpoint, payload, success, http_code, stderr, invocations) ==
    [endpoint |-> endpoint, url |-> RequestUrl(from, endpoint),
     headers |-> RequestHeaders(from), payload |-> payload, from |-> from,
     success |-> success, http_code |-> http_code, stderr |-> stderr,
     invocations |-> invocations]

\* no request yet
NoRequest ==
    [endpoint |-> "", url |-> <<>>, headers |-> <<>>, payload |-> JNULL,
     from |-> initialize_default_state, success |-> FALSE, http_code |-> 0, stderr |-> <<>>,
     invocations |-> 0]

\* the variables of the requests' specification when it is not the one running
ReqIdle ==
    /\ rpc = "off"
    /\ config = JNULL
    /\ calls = <<>>
    /\ req = NoRequest

\* the variables of the store's specification when it is not the one running
StoreIdle ==
    /\ disk = NoDisk
    /\ heap = NoHeap

\* the variable of the ingestions' specification when it is not the one running
IngIdle == ing = NoIngestion

\* the variables of the session's specification when it is not the one running
SessIdle ==
    /\ state = initialize_default_state
    /\ interactive = FALSE
    /\ pc = "exit"
    /\ last_op = Did("none")
    /\ net = << >>
    /\ applied = {}

\* the variables of the decoder's specification when it is not the one running
DecIdle ==
    /\ wire = <<>>
    /\ recv = <<>>
    /\ mem = NewDecoder
    /\ dpc = "closed"
    /\ spanned = FALSE

\* the variables of the call's specification when it is not the one running
CallIdle ==
    /\ call_env = [local_ok |-> TRUE, curl_init_ok |-> TRUE, script |-> <<>>]
    /\ call_ret = CallResult(FALSE, NULL, NotPerformed, FALSE, <<>>)
    /\ cpc = "returned"

\* ------------------------------------------ the decoder on its own: SpecDecoder
DecInit ==
    /\ wire \in Wires(MaxLines)
    /\ recv = <<>>
    /\ mem = NewDecoder
    /\ dpc = "open"
    /\ spanned = FALSE
    /\ CallIdle
    /\ SessIdle
    /\ ReqIdle
    /\ StoreIdle
    /\ IngIdle

\* The transport hands the next n bytes to the callback.  A short return makes
\* it abort the transfer.
Deliver ==
    /\ dpc = "open"
    /\ \E n \in 1 .. Len(wire), realloc_ok \in BOOLEAN :
          LET contents == SubSeq(wire, 1, n)
              r == write_memory_callback(mem, contents, realloc_ok)
          IN  /\ mem' = r.mem
              /\ IF r.ret = Len(contents)
                    THEN /\ dpc' = "open"
                         /\ recv' = recv \o contents
                         /\ wire' = SubSeq(wire, n + 1, Len(wire))
                         /\ spanned' = (spanned \/ (mem.size > 0 /\ NL \in { contents[i] : i \in 1 .. n }))
                    ELSE /\ dpc' = "aborted"
                         /\ UNCHANGED <<recv, wire, spanned>>
    /\ UNCHANGED <<callVars, sessVars, reqVars, storeVars, ingVars>>

\* The transfer ends: the server closed the stream, or the connection broke.
Close ==
    /\ dpc = "open"
    /\ dpc' = "closed"
    /\ UNCHANGED <<wire, recv, mem, spanned>>
    /\ UNCHANGED <<callVars, sessVars, reqVars, storeVars, ingVars>>

DecNext == Deliver \/ Close

SpecDecoder == DecInit /\ [][DecNext]_vars

\* ------------------------------------------------ the call on its own: SpecCall
CallInit ==
    /\ DecIdle
    /\ call_env \in CallEnvs
    /\ call_ret = CallResult(FALSE, NULL, NotPerformed, FALSE, <<>>)
    /\ cpc = "ready"
    /\ SessIdle
    /\ ReqIdle
    /\ StoreIdle
    /\ IngIdle

\* send_api_request is called and returns.
SendApiRequest ==
    /\ cpc = "ready"
    /\ call_ret' = send_api_request(call_env)
    /\ cpc' = "returned"
    /\ UNCHANGED <<call_env, decVars, sessVars, reqVars, storeVars, ingVars>>

CallNext == SendApiRequest

SpecCall == CallInit /\ [][CallNext]_vars

\* ------------------------------------------------------ the session: Spec
Init ==
    /\ DecIdle
    /\ CallIdle
    /\ state = initialize_default_state
    /\ interactive \in BOOLEAN
    /\ pc = "args"
    /\ last_op = Did("none")
    /\ net = << >>
    /\ applied = {}
    /\ ReqIdle
    /\ StoreIdle
    /\ IngIdle

\* The record of the store operations of a step.
Record(ops) ==
    /\ net' = ApplyOps(net, ops)
    /\ applied' = applied \cup { ops[i].op : i \in 1 .. Len(ops) }

\* The record of a submission whose call returned r.
Submitted(s, p, r) ==
    /\ last_op' = LastOp("submit", r.success, CurrentTurnParts(s, p), r.full_response)
    /\ Record(<< OpAppend(TotalParts(s, p)),
                 IF r.success THEN OpAppend(1) ELSE OpRemoveLast >>)

\* The submission of p from the state s (the state after what the step did
\* before it), with the record of it.
Submit(s, p, env) ==
    /\ state' = Submission(s, p, env)
    /\ IF TotalParts(s, p) = 0
          THEN /\ last_op' = Did("nothing")
               /\ UNCHANGED <<net, applied>>
          ELSE Submitted(s, p, send_api_request(env))

\* An argument of the command line that is an existing file.
ArgFile ==
    /\ pc = "args"
    /\ state.num_attached_parts < MaxPending
    /\ \E src \in FileSources :
          state' = handle_attachment_from_stream(src, get_mime_type(src.filepath), state)
    /\ last_op' = Did("attach")
    /\ UNCHANGED <<interactive, pc, net, applied, decVars, callVars, reqVars, storeVars, ingVars>>

\* The end of the command line: stdin is attached in a run that is not
\* interactive and has it piped, and the prompt made of the arguments, when
\* there is one, is submitted.  An interactive run then waits for lines.
StartSession ==
    /\ pc = "args"
    /\ \E is_stdin_a_terminal \in BOOLEAN, stdin \in StdinSources,
          initial_prompt \in Prompts \cup { << >> }, env \in SessionEnvs :
          LET s == IF ~interactive /\ ~is_stdin_a_terminal
                       THEN handle_attachment_from_stream(stdin, <<"text/plain">>, state)
                       ELSE state
          IN  IF Len(initial_prompt) > 0
                  THEN Submit(s, initial_prompt, env)
                  ELSE /\ state' = s
                       /\ last_op' = Did("nothing")
                       /\ UNCHANGED <<net, applied>>
    /\ pc' = IF interactive THEN "loop" ELSE "exit"
    /\ UNCHANGED <<interactive, decVars, callVars, reqVars, storeVars, ingVars>>

\* A line that is no command: a prompt, or an empty line, which submits the
\* pending attachments when there are some.
EnterLine ==
    /\ pc = "loop"
    /\ state.history.num_contents < MaxTurns
    /\ \E p \in Prompts \cup { << >> }, env \in SessionEnvs : Submit(state, p, env)
    /\ UNCHANGED <<interactive, pc, decVars, callVars, reqVars, storeVars, ingVars>>

\* /attach file [prompt]: the file is attached and the rest of the line submitted.
CmdAttach ==
    /\ pc = "loop"
    /\ state.history.num_contents < MaxTurns
    /\ state.num_attached_parts < MaxPending
    /\ \E src \in FileSources, p \in Prompts \cup { << >> }, env \in SessionEnvs :
          Submit(handle_attachment_from_stream(src, get_mime_type(src.filepath), state), p, env)
    /\ UNCHANGED <<interactive, pc, decVars, callVars, reqVars, storeVars, ingVars>>

\* /paste
CmdPaste ==
    /\ pc = "loop"
    /\ state.num_attached_parts < MaxPending
    /\ \E stdin \in StdinSources :
          state' = handle_attachment_from_stream(stdin, <<"text/plain">>, state)
    /\ last_op' = Did("attach")
    /\ UNCHANGED <<interactive, pc, net, applied, decVars, callVars, reqVars, storeVars, ingVars>>

\* /stats
CmdStats ==
    /\ pc = "loop"
    /\ \E tokens_env \in TokenEnvs :
          IF state.history.num_contents = 0 /\ state.num_attached_parts = 0
              THEN /\ state' = state
                   /\ last_op' = Did("stats")
                   /\ UNCHANGED <<net, applied>>
              ELSE /\ state' = StatsAfter(StatsBefore(state))
                   /\ last_op' = LastOp("stats", get_token_count(StatsBefore(state), tokens_env) >= 0,
                                        << >>, NULL)
                   /\ Record(IF state.num_attached_parts > 0
                                 THEN << OpAppend(state.num_attached_parts), OpRemoveLast >>
                                 ELSE << >>)
    /\ UNCHANGED <<interactive, pc, decVars, callVars, reqVars, storeVars, ingVars>>

\* /clear and /session new
CmdClear ==
    /\ pc = "loop"
    /\ state' = clear_session_state(state)
    /\ last_op' = Did("clear")
    /\ Record(<< OpClear >>)
    /\ UNCHANGED <<interactive, pc, decVars, callVars, reqVars, storeVars, ingVars>>

\* /history attachments remove msg_idx:part_idx
CmdHistoryAttachmentsRemove ==
    /\ pc = "loop"
    /\ \E msg_idx \in -1 .. MaxTurns, part_idx \in -1 .. MaxPending + 1 :
          /\ state' = HistoryAttachmentsRemove(state, msg_idx, part_idx)
          /\ last_op' = LastOp("remove-part", state' # state, << >>, NULL)
          /\ Record(IF /\ msg_idx >= 0 /\ msg_idx < Len(net)
                       /\ part_idx >= 0 /\ part_idx < net[msg_idx + 1]
                       /\ state.history.contents[msg_idx + 1].parts[part_idx + 1].type = "PART_TYPE_FILE"
                        THEN << OpRemovePart(msg_idx) >>
                        ELSE << >>)
    /\ UNCHANGED <<interactive, pc, decVars, callVars, reqVars, storeVars, ingVars>>

\* /attachments remove index
CmdAttachmentsRemove ==
    /\ pc = "loop"
    /\ \E index \in -1 .. MaxPending :
          state' = AttachmentsRemove(state, index)
    /\ last_op' = Did("detach")
    /\ UNCHANGED <<interactive, pc, net, applied, decVars, callVars, reqVars, storeVars, ingVars>>

\* /attachments clear
CmdAttachmentsClear ==
    /\ pc = "loop"
    /\ state' = free_pending_attachments(state)
    /\ last_op' = Did("detach")
    /\ UNCHANGED <<interactive, pc, net, applied, decVars, callVars, reqVars, storeVars, ingVars>>

\* /exit, /quit or the end of the input
CmdExit ==
    /\ pc = "loop"
    /\ pc' = "exit"
    /\ last_op' = Did("exit")
    /\ UNCHANGED <<state, interactive, net, applied, decVars, callVars, reqVars, storeVars, ingVars>>

Next ==
    \/ ArgFile
    \/ StartSession
    \/ EnterLine
    \/ CmdAttach
    \/ CmdPaste
    \/ CmdStats
    \/ CmdClear
    \/ CmdHistoryAttachmentsRemove
    \/ CmdAttachmentsRemove
    \/ CmdAttachmentsClear
    \/ CmdExit

Spec == Init /\ [][Next]_vars

\* ------------------------------------------ the requests of a session: SpecRequest
\* The configuration files: none; the key "A" and a system prompt; the keys
\* "A", "B", "C" in the array api_keys; a budget of 0 with grounding off; a
\* flash model with a budget above its limit and the URL context off (as 0).
ConfigDocs ==
    { JNULL,
      cJSON_AddStringToObject(
          cJSON_AddStringToObject(cJSON_CreateObject, "api_key", <<"A">>),
          "system_prompt", <<"be brief">>),
      cJSON_AddItemToObject(cJSON_CreateObject, "api_keys",
          [cJSON_CreateArray EXCEPT !.child = << cJSON_CreateString(<<"A">>),
                                                 cJSON_CreateString(<<"B">>),
                                                 cJSON_CreateString(<<"C">>) >>]),
      cJSON_AddItemToObject(
          cJSON_AddNumberToObject(cJSON_CreateObject, "thinking_budget", 0),
          "google_grounding", cJSON_CreateBool(FALSE)),
      cJSON_AddNumberToObject(
          cJSON_AddNumberToObject(
              cJSON_AddStringToObject(cJSON_CreateObject, "model", <<"gemini-2.5-", "flash">>),
              "thinking_budget", 20000),
          "url_context", 0) }

\* the options of the command line
ArgLists ==
    { <<>>, <<"-b", "0">>, <<"-b", "-5">>, <<"-ng">>, <<"-nu">>,
      <<"-m", "gemini-2.5-flash", "-b", "20000">>, <<"--help">> }

\* GEMINI_API_KEY and GEMINI_API_KEY_ORIGIN: both unset, or the key "E" and an
\* origin
Environs ==
    { [key |-> NULL, origin |-> NULL],
      [key |-> <<"E">>, origin |-> <<"https://my-app.com">>] }

\* what is entered when the key is asked for: nothing, or the key "A"
TypedKeys == { <<>>, <<"A">> }

\* the rest of the line after /budget
BudgetArgs == {"", "x", "0", "-5"}

\* the environments of the generate calls: the answer, and a refusal with 403
RequestEnvs ==
    { [local_ok |-> TRUE, curl_init_ok |-> TRUE,
       script |-> << Exchange(200, AnswerBody, 0, CURLE_OK, 0) >>],
      [local_ok |-> TRUE, curl_init_ok |-> TRUE,
       script |-> << Exchange(403, ErrorLine, 0, CURLE_OK, 0) >>] }

\* the file attached in a session of requests
RequestSource == Source(<<"a", ".", "P", "n", "g">>, TRUE, TRUE, <<137, 80, 78, 71>>, FALSE)

\* the value of the key header among the headers, NULL when there is none
CredentialOf(headers) ==
    IF \E i \in 1 .. Len(headers) : headers[i].name = "x-goog-api-key"
        THEN headers[CHOOSE i \in 1 .. Len(headers) : headers[i].name = "x-goog-api-key"].value
    ELSE NULL

\* the entry of a request in calls
CallOf(request) ==
    [endpoint |-> request.endpoint, key |-> CredentialOf(request.headers),
     success |-> request.success]

\* what get_token_count prints to stderr (the text of the body is not followed)
CountReport(tokens_env) ==
    IF ~tokens_env.local_ok \/ tokens_env.http_code = 200 THEN <<>>
    ELSE << Msg("Token count API call failed (HTTP code: %ld)", tokens_env.http_code, <<>>) >>

ReqInit ==
    /\ DecIdle
    /\ CallIdle
    /\ StoreIdle
    /\ IngIdle
    /\ state = initialize_default_state
    /\ interactive = TRUE
    /\ pc = "exit"
    /\ last_op = Did("none")
    /\ net = << >>
    /\ applied = {}
    /\ rpc = "config"
    /\ config = JNULL
    /\ calls = <<>>
    /\ req = NoRequest

\* load_configuration(&state)
LoadConfiguration ==
    /\ rpc = "config"
    /\ \E root \in ConfigDocs :
          /\ state' = load_configuration(state, root)
          /\ config' = root
    /\ rpc' = "options"
    /\ UNCHANGED <<calls, req, interactive, pc, last_op, net, applied, decVars, callVars, storeVars, ingVars>>

\* parse_common_options(argc, argv, &state)
ParseCommonOptions ==
    /\ rpc = "options"
    /\ \E argv \in ArgLists :
          /\ state' = parse_common_options(argv, state).state
          /\ rpc' = IF parse_common_options(argv, state).exited THEN "exit" ELSE "keys"
    /\ UNCHANGED <<config, calls, req, interactive, pc, last_op, net, applied, decVars, callVars, storeVars, ingVars>>

\* the limit of the flash models, the key and the origin
SessionStartUp ==
    /\ rpc = "keys"
    /\ \E environ \in Environs, typed \in TypedKeys :
          state' = StartUp(state, environ.key, typed, environ.origin)
    /\ rpc' = "loop"
    /\ UNCHANGED <<config, calls, req, interactive, pc, last_op, net, applied, decVars, callVars, storeVars, ingVars>>

\* /budget
ReqBudget ==
    /\ rpc = "loop"
    /\ \E arg_start \in BudgetArgs : state' = Budget(state, arg_start)
    /\ UNCHANGED <<rpc, config, calls, req, interactive, pc, last_op, net, applied,
                   decVars, callVars, storeVars, ingVars>>

\* /attach
ReqAttach ==
    /\ rpc = "loop"
    /\ state.num_attached_parts < MaxPending
    /\ state' = handle_attachment_from_stream(RequestSource,
                    get_mime_type(RequestSource.filepath), state)
    /\ UNCHANGED <<rpc, config, calls, req, interactive, pc, last_op, net, applied,
                   decVars, callVars, storeVars, ingVars>>

\* the request of a submission and the state after it; s: the state with the
\* user's turn added, r: what send_api_request returned
Generated(s, r) ==
    /\ req' = Request(s, "streamGenerateContent?alt=sse", build_request_json(s),
                      r.success, r.http_code, r.stderr, r.invocations)
    /\ calls' = Append(calls, CallOf(Request(s, "streamGenerateContent?alt=sse", JNULL,
                                             r.success, r.http_code, <<>>, r.invocations)))
    /\ state' = Completed(s, r)

\* a line that is a prompt
ReqSubmit ==
    /\ rpc = "loop"
    /\ Len(calls) < MaxCalls
    /\ \E p \in Prompts, env \in RequestEnvs :
          Generated(UserTurnAdded(state, p), send_api_request(env))
    /\ UNCHANGED <<rpc, config, interactive, pc, last_op, net, applied, decVars, callVars, storeVars, ingVars>>

\* the request of get_token_count; s: the state it is called with
Counted(s, tokens_env) ==
    /\ req' = Request(s, "countTokens", CountTokensPayload(s),
                      get_token_count(s, tokens_env) >= 0, tokens_env.http_code,
                      CountReport(tokens_env), IF tokens_env.local_ok THEN 1 ELSE 0)
    /\ calls' = Append(calls, CallOf(Request(s, "countTokens", JNULL,
                                             get_token_count(s, tokens_env) >= 0,
                                             tokens_env.http_code, <<>>, 1)))

\* /stats, with something to count
ReqStats ==
    /\ rpc = "loop"
    /\ Len(calls) < MaxCalls
    /\ state.history.num_contents > 0 \/ state.num_attached_parts > 0
    /\ \E tokens_env \in TokenEnvs : Counted(StatsBefore(state), tokens_env)
    /\ state' = StatsAfter(StatsBefore(state))
    /\ UNCHANGED <<rpc, config, interactive, pc, last_op, net, applied, decVars, callVars, storeVars, ingVars>>

ReqNext ==
    \/ LoadConfiguration
    \/ ParseCommonOptions
    \/ SessionStartUp
    \/ ReqBudget
    \/ ReqAttach
    \/ ReqSubmit
    \/ ReqStats

SpecRequest == ReqInit /\ [][ReqNext]_vars

\* ----------------------------------------- the ingestions on their own: SpecIngest
\* n bytes of a source
Bytes(n) == SubSeq([i \in 1 .. n |-> i % 256], 1, n)

\* the first ingestions of a run, among which the large sources come
MaxLarge == 1

\* The large sources: stdin delivering one fread less than the initial
\* capacity, exactly the initial capacity (also with a read error at its end),
\* and half of what size_t can count; a file of the initial capacity.
LargeSources ==
    { Source(<<"stdin">>, FALSE, TRUE, Bytes(INITIAL_CAPACITY - READ_SIZE), FALSE),
      Source(<<"stdin">>, FALSE, TRUE, Bytes(INITIAL_CAPACITY), FALSE),
      Source(<<"stdin">>, FALSE, TRUE, Bytes(2 ^ (SIZE_BITS - 1)), FALSE),
      Source(<<"b", ".", "b", "i", "n">>, TRUE, TRUE, Bytes(INITIAL_CAPACITY), FALSE) }

\* the ingestions of large sources: every allocation succeeds, or the first
\* realloc fails
LargeIngestions ==
    { <<src, AllocOK>> : src \in LargeSources }
    \cup { << Source(<<"stdin">>, FALSE, TRUE, Bytes(INITIAL_CAPACITY), FALSE),
              Alloc(TRUE, 1, TRUE, TRUE) >>,
           << Source(<<"stdin">>, FALSE, TRUE, Bytes(INITIAL_CAPACITY), TRUE), AllocOK >> }

\* the eight bytes a PNG file begins with
PngSignature == <<137, 80, 78, 71, 13, 10, 26, 10>>

\* a PNG picture under the name of a text file
Disguised == Source(<<"p", ".", "t", "x", "t">>, TRUE, TRUE, PngSignature \o <<0, 0>>, FALSE)

\* the ingestions of small sources: every allocation succeeds, or one of the
\* allocations of a source that delivers data fails
SmallIngestions ==
    { <<src, AllocOK>> : src \in FileSources \cup StdinSources \cup { Disguised } }
    \cup { <<src, alloc>> :
              src \in { Source(<<"a", ".", "P", "n", "g">>, TRUE, TRUE, <<137, 80, 78, 71>>, FALSE),
                        Source(<<"stdin">>, FALSE, TRUE, <<104>>, FALSE) },
              alloc \in { Alloc(FALSE, 0, TRUE, TRUE), Alloc(TRUE, 0, FALSE, TRUE),
                          Alloc(TRUE, 0, TRUE, FALSE) } }

\* the MIME type the callers give: text/plain for stdin, get_mime_type of the
\* name for a file
MimeOf(src) == IF src.is_from_file THEN get_mime_type(src.filepath) ELSE <<"text/plain">>

\* the state after k attachments of the same picture
Pending(k) ==
    [initialize_default_state EXCEPT
        !.attached_parts =
            SubSeq([i \in 1 .. k |->
                       Part("PART_TYPE_FILE", NULL, <<"image/png">>,
                            base64_encode(<<137, 80, 78, 71>>), <<"a", ".", "P", "n", "g">>)],
                   1, k),
        !.num_attached_parts = k]

\* the list is nearly empty or nearly full: the counts the model follows
Near(n) == n <= MaxPending \/ n >= ATTACHMENT_LIMIT - MaxPending

IngInit ==
    /\ DecIdle
    /\ CallIdle
    /\ ReqIdle
    /\ StoreIdle
    /\ state \in { Pending(0), Pending(ATTACHMENT_LIMIT - 1), Pending(ATTACHMENT_LIMIT) }
    /\ interactive = TRUE
    /\ pc = "loop"
    /\ last_op = Did("none")
    /\ net = << >>
    /\ applied = {}
    /\ ing = NoIngestion

\* one call of handle_attachment_from_stream and its record
Ingesting(src, alloc, count, result) ==
    /\ state' = result.state
    /\ ing' = Ingest(TRUE, count, src, alloc, result)

\* /attach and /paste of a small source
IngestSmall ==
    /\ Near(state.num_attached_parts)
    /\ \E i \in SmallIngestions : Ingesting(i[1], i[2], IF ing.count < MaxLarge THEN ing.count + 1 ELSE ing.count,
                                            Ingestion(i[1], MimeOf(i[1]), state, i[2]))
    /\ UNCHANGED <<interactive, pc, last_op, net, applied, decVars, callVars, reqVars, storeVars>>

\* /attach and /paste of a large source
IngestLarge ==
    /\ Near(state.num_attached_parts)
    /\ ing.count < MaxLarge
    /\ \E i \in LargeIngestions : Ingesting(i[1], i[2], ing.count + 1,
                                            Ingestion(i[1], MimeOf(i[1]), state, i[2]))
    /\ UNCHANGED <<interactive, pc, last_op, net, applied, decVars, callVars, reqVars, storeVars>>

\* /attachments clear
IngClear ==
    /\ state' = free_pending_attachments(state)
    /\ UNCHANGED <<ing, interactive, pc, last_op, net, applied, decVars, callVars, reqVars, storeVars>>

IngNext ==
    \/ IngestSmall
    \/ IngestLarge
    \/ IngClear

SpecIngest == IngInit /\ [][IngNext]_vars

\* ------------------------------------- the store, saved and loaded: SpecStore
\* the lines a run reads
MaxCommands == 2

\* a picture and what /paste reads from stdin
Picture == Source(<<"a", ".", "P", "n", "g">>, TRUE, TRUE, <<137, 80, 78, 71>>, FALSE)

Pasted == Source(<<"stdin">>, FALSE, TRUE, <<104>>, FALSE)

\* the calls of the submissions: answered; refused with 503; and one whose
\* request cannot be built, printed or compressed, which the server would
\* have answered
StoreEnvs ==
    { [local_ok |-> TRUE, curl_init_ok |-> TRUE,
       script |-> << Exchange(200, AnswerBody, 20, CURLE_OK, 0) >>],
      [local_ok |-> TRUE, curl_init_ok |-> TRUE, script |-> << Unavailable >>],
      [local_ok |-> FALSE, curl_init_ok |-> TRUE,
       script |-> << Exchange(200, AnswerBody, 20, CURLE_OK, 0) >>] }

\* the texts of the prompts: a word; a text with a quote, a newline, a
\* tabulator and a backslash
StoreTexts == { <<"hello">>, <<"say", " ", "\"", "hi", "\"", "\n", "\t", "\\">> }

\* the system prompts of /system
SystemPrompts == { <<"be", " ", "brief">> }

\* the session after /attach of the picture and /paste
TwoPending ==
    handle_attachment_from_stream(Pasted, MimeOf(Pasted),
        handle_attachment_from_stream(Picture, MimeOf(Picture), initialize_default_state))

\* a session with a turn of two attachments and a text, answered
Answered ==
    Submission(TwoPending, <<"say", " ", "\"", "hi", "\"", "\n", "\t", "\\">>,
               [local_ok |-> TRUE, curl_init_ok |-> TRUE,
                script |-> << Exchange(200, AnswerBody, 20, CURLE_OK, 0) >>])

\* the sessions the runs start from, each with its allocations: a new one;
\* two pending attachments; the answered turn; the same after /system and
\* /session save s
StoreStarts ==
    { [state |-> initialize_default_state, heap |-> NoHeap],
      [state |-> TwoPending, heap |-> HeapAttach(HeapAttach(NoHeap))],
      [state |-> Answered,
       heap |-> HeapSubmission(HeapAttach(HeapAttach(NoHeap)), TRUE, TRUE)],
      [state |-> [Answered EXCEPT !.system_prompt = <<"be", " ", "brief">>,
                                  !.current_session_name = <<"s">>],
       heap |-> HeapSubmission(HeapAttach(HeapAttach(NoHeap)), TRUE, TRUE)] }

\* the file after /save in the session s
Saved(s) == [written |-> TRUE, text |-> save_history_to_file(s), from |-> s]

\* a string of a document, spelled out
Quoted(token) == << "\"", token, "\"" >>

\* documents that no save has written: a turn whose part is an empty object;
\* a turn whose part is inline data without the data; contents that is no
\* array; a document that is no object; a turn with a text
Documents ==
    { <<"{">> \o Quoted("contents") \o <<":", "[", "{">> \o Quoted("role") \o <<":">>
          \o Quoted("user") \o <<",">> \o Quoted("parts") \o <<":", "[", "{", "}", "]", "}", "]", "}">>,
      <<"{">> \o Quoted("contents") \o <<":", "[", "{">> \o Quoted("role") \o <<":">>
          \o Quoted("user") \o <<",">> \o Quoted("parts") \o <<":", "[", "{">>
          \o Quoted("inlineData") \o <<":", "{">> \o Quoted("mimeType") \o <<":">>
          \o Quoted("text/plain") \o <<"}", "}", "]", "}", "]", "}">>,
      <<"{">> \o Quoted("contents") \o <<":", "1", "}">>,
      <<"[", "]">>,
      <<"{">> \o Quoted("contents") \o <<":", "[", "{">> \o Quoted("role") \o <<":">>
          \o Quoted("model") \o <<",">> \o Quoted("parts") \o <<":", "[", "{">>
          \o Quoted("text") \o <<":">> \o Quoted("hi") \o <<"}", "]", "}", "]", "}">> }

\* what /clear found: the numbers of turns and of pending attachments, the
\* system prompt, the last response and the name of the session
Before(s) ==
    [num_contents |-> s.history.num_contents, num_attached_parts |-> s.num_attached_parts,
     system_prompt |-> s.system_prompt, last_model_response |-> s.last_model_response,
     current_session_name |-> s.current_session_name]

NothingBefore ==
    [num_contents |-> 0, num_attached_parts |-> 0, system_prompt |-> NULL,
     last_model_response |-> NULL, current_session_name |-> << >>]

\* What a load found in the file: whether it could be opened and read,
\* whether its text is a JSON object, whether the object has an array
\* contents, and the roles of the items of contents that are turns.
NoFile == [opened |-> FALSE, object |-> FALSE, contents |-> FALSE, roles |-> << >>]

RECURSIVE RolesOf(_, _)
RolesOf(items, i) ==
    IF i > Len(items) THEN << >>
    ELSE (IF IsTurnItem(items[i])
              THEN << RoleOf(cJSON_GetObjectItem(items[i], "role")) >>
          ELSE << >>) \o RolesOf(items, i + 1)

FileOf(root) ==
    [opened |-> TRUE,
     object |-> cJSON_IsObject(root),
     contents |-> cJSON_IsObject(root) /\ cJSON_IsArray(cJSON_GetObjectItem(root, "contents")),
     roles |-> IF cJSON_IsObject(root) /\ cJSON_IsArray(cJSON_GetObjectItem(root, "contents"))
                   THEN RolesOf(cJSON_GetObjectItem(root, "contents").child, 1)
               ELSE << >>]

\* What the last step of the store did: its kind; for a removal the indices
\* and what it printed; for a submission the text, the turn it added and
\* whether the request could be made, whether the call succeeded, how many
\* transfers it made and whether it reached the transport; for a load whether
\* the file is as /save wrote it; and the number of lines read so far.
StoreOp(kind) ==
    [kind |-> kind, lines |-> IF kind = "none" THEN 0 ELSE last_op.lines + 1, msg_idx |-> 0, part_idx |-> 0, report |-> "", p |-> <<>>,
     user_turn |-> [role |-> "", parts |-> <<>>, num_parts |-> 0], success |-> FALSE,
     local_ok |-> TRUE, invocations |-> 0, transported |-> FALSE,
     saved |-> FALSE, before |-> NothingBefore, file |-> NoFile]

StoreInit ==
    /\ DecIdle
    /\ CallIdle
    /\ ReqIdle
    /\ IngIdle
    /\ \E start \in StoreStarts :
          /\ state = start.state
          /\ heap = start.heap
    /\ interactive = TRUE
    /\ pc = "loop"
    /\ last_op = StoreOp("none")
    /\ net = << >>
    /\ applied = {}
    /\ disk \in { NoDisk, Saved(Answered) }

\* /attach and /paste
StoreAttach ==
    /\ pc = "loop"
    /\ last_op.lines < MaxCommands
    /\ state.num_attached_parts < MaxPending
    /\ \E src \in {Picture, Pasted} :
          state' = handle_attachment_from_stream(src, MimeOf(src), state)
    /\ heap' = IF state'.num_attached_parts > state.num_attached_parts
                   THEN HeapAttach(Started(heap))
                ELSE Started(heap)
    /\ last_op' = StoreOp("attach")
    /\ UNCHANGED <<interactive, pc, net, applied, disk, decVars, callVars, reqVars, ingVars>>

\* a line that is no command: the submission of its text
StoreSubmit ==
    /\ pc = "loop"
    /\ last_op.lines < MaxCommands
    /\ state.history.num_contents < MaxTurns
    /\ \E p \in StoreTexts \cup { << >> }, env \in StoreEnvs :
          /\ TotalParts(state, p) > 0
          /\ state' = Submission(state, p, env)
          /\ last_op' = [StoreOp("submit") EXCEPT
                             !.p = p, !.success = send_api_request(env).success,
                             !.local_ok = env.local_ok,
                             !.invocations = send_api_request(env).invocations,
                             !.transported = send_api_request(env).transported,
                             !.user_turn = UserTurnAdded(state, p).history.contents[
                                               state.history.num_contents + 1]]
          /\ heap' = HeapSubmission(heap, Len(p) > 0, send_api_request(env).success)
    /\ UNCHANGED <<interactive, pc, net, applied, disk, decVars, callVars, reqVars, ingVars>>

\* what /history attachments remove prints for the indices
RemoveReport(s, msg_idx, part_idx) ==
    IF msg_idx < 0 \/ msg_idx >= s.history.num_contents
        THEN "Error: Invalid message index %d."
    ELSE IF part_idx < 0 \/ part_idx >= s.history.contents[msg_idx + 1].num_parts
        THEN "Error: Invalid part index %d for message %d."
    ELSE IF s.history.contents[msg_idx + 1].parts[part_idx + 1].type # "PART_TYPE_FILE"
        THEN "Error: Part [%d:%d] is not a file attachment."
    ELSE "Removing attachment [%d:%d]: %s"

\* /history attachments remove msg_idx:part_idx
StoreRemove ==
    /\ pc = "loop"
    /\ last_op.lines < MaxCommands
    /\ \E msg_idx \in -1 .. state.history.num_contents, part_idx \in -1 .. MaxPending + 2 :
          /\ state' = HistoryAttachmentsRemove(state, msg_idx, part_idx)
          /\ last_op' = [StoreOp("remove") EXCEPT
                             !.msg_idx = msg_idx, !.part_idx = part_idx,
                             !.report = RemoveReport(state, msg_idx, part_idx)]
          /\ heap' = IF RemoveReport(state, msg_idx, part_idx) = "Removing attachment [%d:%d]: %s"
                         THEN HeapRemovePart(Started(heap), msg_idx, part_idx)
                      ELSE Started(heap)
    /\ UNCHANGED <<interactive, pc, net, applied, disk, decVars, callVars, reqVars, ingVars>>

\* /system with a prompt, and /clear_system
StoreSystem ==
    /\ pc = "loop"
    /\ last_op.lines < MaxCommands
    /\ \E system_prompt \in SystemPrompts \cup { NULL } :
          state' = [state EXCEPT !.system_prompt = strdup(system_prompt)]
    /\ last_op' = StoreOp("system")
    /\ heap' = Started(heap)
    /\ UNCHANGED <<interactive, pc, net, applied, disk, decVars, callVars, reqVars, ingVars>>

\* /clear and /session new
StoreClear ==
    /\ pc = "loop"
    /\ last_op.lines < MaxCommands
    /\ state' = clear_session_state(state)
    /\ heap' = HeapFreePending(HeapFreeHistory(Started(heap)))
    /\ last_op' = [StoreOp("clear") EXCEPT !.before = Before(state)]
    /\ UNCHANGED <<interactive, pc, net, applied, disk, decVars, callVars, reqVars, ingVars>>

\* /save: the file is written
StoreSave ==
    /\ pc = "loop"
    /\ last_op.lines < MaxCommands
    /\ disk' = Saved(state)
    /\ last_op' = StoreOp("save")
    /\ heap' = Started(heap)
    /\ UNCHANGED <<state, interactive, pc, net, applied, decVars, callVars, reqVars, ingVars>>

\* the load of a text: the process ends when it does not survive a slot it
\* has not written
Loading(text, slot) ==
    /\ state' = IF UsesUnwritten(cJSON_Parse(text)) /\ slot = Crash
                    THEN [state EXCEPT !.history = free_history(@)]
                 ELSE load_history_from_file(state, text, slot)
    /\ pc' = IF UsesUnwritten(cJSON_Parse(text)) /\ slot = Crash THEN "crashed" ELSE pc
    /\ heap' = IF UsesUnwritten(cJSON_Parse(text)) /\ slot = Crash
                   THEN HeapFreeHistory(Started(heap))
                ELSE HeapLoaded(heap, cJSON_Parse(text))
    /\ last_op' = [StoreOp("load") EXCEPT !.saved = disk.written /\ text = disk.text,
                                          !.file = FileOf(cJSON_Parse(text))]

\* /load of a file that cannot be opened, or whose reading fails
StoreLoadUnread ==
    /\ pc = "loop"
    /\ last_op.lines < MaxCommands
    /\ last_op' = StoreOp("load")
    /\ heap' = Started(heap)
    /\ UNCHANGED <<state, interactive, pc, net, applied, disk, decVars, callVars, reqVars, ingVars>>

\* /load of the file that /save wrote, or of another document
StoreLoad ==
    /\ pc = "loop"
    /\ last_op.lines < MaxCommands
    /\ \E text \in (IF disk.written THEN { disk.text } ELSE {}) \cup Documents,
          slot \in Uninitialised :
          Loading(text, slot)
    /\ UNCHANGED <<interactive, net, applied, disk, decVars, callVars, reqVars, ingVars>>

StoreNext ==
    \/ StoreAttach
    \/ StoreSubmit
    \/ StoreRemove
    \/ StoreSystem
    \/ StoreClear
    \/ StoreSave
    \/ StoreLoadUnread
    \/ StoreLoad

SpecStore == StoreInit /\ [][StoreNext]_vars

\* ------------------------------------------------ claims about the decoder
RECURSIVE Flatten(_)
Flatten(ss) == IF ss = <<>> THEN <<>> ELSE Head(ss) \o Flatten(Tail(ss))

Accumulated(m) == SubSeq(m.full_response, 1, m.full_response_size)

Carry(m) == SubSeq(m.buffer, 1, m.size)

NewlinesIn(bytes) == { i \in 1 .. Len(bytes) : bytes[i] = NL }

LastNewline(bytes) == CHOOSE i \in NewlinesIn(bytes) : \A j \in NewlinesIn(bytes) : j <= i

AfterLastNewline(bytes) ==
    IF NewlinesIn(bytes) = {} THEN bytes
    ELSE SubSeq(bytes, LastNewline(bytes) + 1, Len(bytes))

RECURSIVE CompleteLines(_, _)
\* the newline-terminated lines of bytes, in order (cur: the line being read)
CompleteLines(bytes, cur) ==
    IF bytes = <<>> THEN <<>>
    ELSE IF Head(bytes) = NL THEN <<cur>> \o CompleteLines(Tail(bytes), <<>>)
    ELSE CompleteLines(Tail(bytes), Append(cur, Head(bytes)))

\* the decoder after the same bytes delivered as one chunk
OneChunk(bytes) ==
    IF bytes = <<>> THEN NewDecoder
    ELSE write_memory_callback(NewDecoder, bytes, TRUE).mem

\* C4: whatever the split of the received bytes into chunks (recv is every
\* prefix of every stream, so the streams of newline-terminated lines too),
\* the accumulated response and the emitted fragments are those of the same
\* bytes delivered as one chunk.
C4_ChunkingIndependent ==
    /\ Accumulated(mem) = Accumulated(OneChunk(recv))
    /\ mem.stdout = OneChunk(recv).stdout

\* C4 witness: a whole stream has arrived in several chunks, one of them ending
\* inside a line, and two fragments were emitted.
C4_Witness ==
    /\ wire = <<>> /\ recv # <<>>
    /\ spanned
    /\ Len(mem.stdout) >= 2

\* C5: after every call the carry buffer holds the bytes received after the
\* last newline, none of them a newline, and the lines parsed so far are the
\* complete lines received, each once and in order.
C5_CarryIsTail ==
    /\ mem.size = Len(mem.buffer)
    /\ Carry(mem) = AfterLastNewline(recv)
    /\ NewlinesIn(Carry(mem)) = {}
    /\ mem.lines = CompleteLines(recv, <<>>)

\* C5 witness: a line that arrived in more than one chunk has been parsed and
\* the start of the next line waits in the carry buffer.
C5_Witness == spanned /\ mem.size > 0 /\ Len(mem.lines) >= 1

\* C6: a call that completes only lines of the skipped kinds emits nothing,
\* leaves the accumulated response as it was, and returns the chunk's size, so
\* that the transfer goes on.
C6_SkippedLinesIgnored ==
    [][ ( /\ Len(mem'.lines) > Len(mem.lines)
          /\ \A i \in (Len(mem.lines) + 1) .. Len(mem'.lines) : mem'.lines[i] \in SkippedLines )
        => ( /\ mem'.stdout = mem.stdout
             /\ Accumulated(mem') = Accumulated(mem)
             /\ dpc' = "open" ) ]_vars

\* C6 witness: a skipped line was parsed first, and an event after it was
\* still received and emitted.
C6_Witness ==
    /\ Len(mem.lines) >= 2
    /\ mem.lines[1] \in SkippedLines
    /\ mem.lines[2] \in EventLines
    /\ Len(mem.stdout) = 1

\* the value of the first text part of an event line
FirstTextOf(line) ==
    StrValue((CHOOSE texts \in EventTexts : EventLine(texts) = line)[1])

\* the values of all text parts of an event line, in order
AllTextsOf(line) ==
    LET texts == CHOOSE texts \in EventTexts : EventLine(texts) = line
    IN  [i \in 1 .. Len(texts) |-> StrValue(texts[i])]

RECURSIVE FirstTexts(_)
FirstTexts(lines) ==
    IF lines = <<>> THEN <<>>
    ELSE IF Head(lines) \in EventLines
        THEN <<FirstTextOf(Head(lines))>> \o FirstTexts(Tail(lines))
    ELSE FirstTexts(Tail(lines))

RECURSIVE AllTexts(_)
AllTexts(lines) ==
    IF lines = <<>> THEN <<>>
    ELSE IF Head(lines) \in EventLines
        THEN AllTextsOf(Head(lines)) \o AllTexts(Tail(lines))
    ELSE AllTexts(Tail(lines))

C8_AllPartsShown ==
    /\ Flatten(mem.stdout) = Flatten(AllTexts(mem.lines))
    /\ Accumulated(mem) = Flatten(AllTexts(mem.lines))

GrownByExchange(h, g, parts, response) ==
    /\ g.num_contents = h.num_contents + 2
    /\ Len(g.contents) = g.num_contents
    /\ SubSeq(g.contents, 1, h.num_contents) = SubSeq(h.contents, 1, h.num_contents)
    /\ g.contents[h.num_contents + 1] =
           [role |-> "user", parts |-> parts, num_parts |-> Len(parts)]
    /\ g.contents[h.num_contents + 2] =
           [role |-> "model", parts |-> << TextPart(response) >>, num_parts |-> 1]

\* C2: a prompt submission whose call succeeds adds two turns to the history,
\* the user's with the submitted parts and then the model's with one text
\* part, the response the decoder accumulated; the turns before are unchanged.
C2_SuccessfulSubmissionAddsExchange ==
    [][ (last_op'.kind = "submit" /\ last_op'.success)
        => GrownByExchange(state.history, state'.history, last_op'.parts, last_op'.response) ]_vars

\* C2 witness: a second exchange, of an attachment and a text, answered by a
\* response of two events.
C2_Witness ==
    /\ last_op.kind = "submit" /\ last_op.success
    /\ Len(last_op.parts) = 2
    /\ last_op.response = <<"x", "y">>
    /\ state.history.num_contents = 4

\* C3: the stored turn count and the part count of every turn are those of the
\* operations applied (append, remove-last, remove-part, clear), and the turns
\* and parts held are as many.
C3_CountsAreNetEffect ==
    /\ state.history.num_contents = Len(net)
    /\ Len(state.history.contents) = Len(net)
    /\ \A i \in 1 .. Len(net) :
          /\ state.history.contents[i].num_parts = net[i]
          /\ Len(state.history.contents[i].parts) = net[i]

\* C3 witness: operations of the four kinds have been applied, the last one
\* the removal of a part, and turns are left.
C3_Witness ==
    /\ applied = {"append", "remove-last", "remove-part", "clear"}
    /\ last_op.kind = "remove-part" /\ last_op.success
    /\ state.history.num_contents >= 2

\* --------------------------------------------------- claims about the call
\* the statuses of the responses of the server's script, in order
Statuses(env) == [i \in 1 .. Len(env.script) |-> env.script[i].status]

\* C9 as claimed: a call whose transfer failed or was aborted fails and hands
\* no response over; a response is handed over only after a transfer the
\* transport reports as successful.  (The code looks at the status only.)
C9_HandOverOnlyOnTransportSuccess ==
    (cpc = "returned" /\ call_ret.transported /\ call_ret.res # CURLE_OK)
        => (~call_ret.success /\ call_ret.full_response_out = NULL)

\* C10 as claimed: 503 three times and then a successful answer is a
\* successful call of 4 transfers; 503 four times and more is a failed call
\* of 4 transfers.  (The code makes one transfer.)
C10_RetriesOn503 ==
    (cpc = "returned" /\ call_env.local_ok /\ call_env.curl_init_ok)
        => /\ ( /\ Statuses(call_env) = <<503, 503, 503, 200>>
                /\ call_env.script[4].res = CURLE_OK
                /\ call_env.script[4].realloc_fail_at = 0 )
              => (call_ret.success /\ call_ret.invocations = 4)
           /\ ( /\ Len(call_env.script) >= 4
                /\ \A i \in 1 .. 4 : call_env.script[i].status = 503 )
              => (~call_ret.success /\ call_ret.invocations = 4)

C14_NegatedCodeOrStatus ==
    (cpc = "returned" /\ call_ret.transported)
        => IF ~call_env.curl_init_ok
               THEN call_ret.http_code = -CURLE_FAILED_INIT
           ELSE IF call_ret.res # CURLE_OK /\ call_env.script[1].status = 0
               THEN call_ret.http_code = -call_ret.res /\ call_ret.http_code < 0
           ELSE call_ret.http_code = call_env.script[1].status /\ call_ret.http_code > 0

\* a call whose connection failed has returned minus CURLE_COULDNT_CONNECT
C14_Witness ==
    /\ cpc = "returned"
    /\ call_ret.transported
    /\ call_env.curl_init_ok
    /\ call_env.script[1].status = 0
    /\ call_ret.http_code = -CURLE_COULDNT_CONNECT

\* C15: send_api_request returns true exactly when the status of the call is
\* 200, and *full_response_out is not NULL exactly when it returns true.
C15_TrueExactlyOn200 ==
    cpc = "returned"
        => /\ call_ret.success <=> (call_ret.http_code = 200)
           /\ (call_ret.full_response_out # NULL) <=> call_ret.success

\* a call with status 200 has returned true with the response it accumulated
C15_Witness ==
    /\ cpc = "returned"
    /\ call_ret.http_code = 200
    /\ call_ret.success
    /\ call_ret.full_response_out # NULL
    /\ call_ret.full_response_out # <<>>

\* the body of the exchange is an error document {error: {message}}
StructuredError(body) ==
    LET root == cJSON_Parse(body) IN
    cJSON_IsString(cJSON_GetObjectItem(cJSON_GetObjectItem(root, "error"), "message"))

\* the message of that document
ServerMessage(body) ==
    cJSON_GetObjectItem(cJSON_GetObjectItem(cJSON_Parse(body), "error"), "message").valuestring

\* C13: when a streaming generate call ends with a status outside 200..299 and
\* the body of the response is an error document {error: {message}}, the
\* failure reported carries the message of the server, in whatever number of
\* lines and chunks the body came.
C13_FailureCarriesServerMessage ==
    (/\ cpc = "returned"
     /\ call_ret.transported
     /\ call_env.curl_init_ok
     /\ call_env.script[1].status > 0
     /\ call_env.script[1].status \notin 200 .. 299
     /\ StructuredError(call_env.script[1].body))
        => \E i \in 1 .. Len(call_ret.stderr) :
               /\ call_ret.stderr[i].format = "API Error Message: %s"
               /\ call_ret.stderr[i].text = ServerMessage(call_env.script[1].body)

\* --------------------------------------------------- claims on the requests
\* the request is one of send_api_request
IsGenerate(request) == request.endpoint = "streamGenerateContent?alt=sse"

\* the message names the key: one of its tokens is in the text
NamesKey(message, key) == \E j \in 1 .. Len(message.text) : \E k \in 1 .. Len(key) :
                              message.text[j] = key[k]

\* C11: a response with status 401 or 403 yields a failure that identifies the
\* credential the request was made with, and the request is not made again
\* with that credential.
C11_AuthFailureNamesCredential ==
    (IsGenerate(req) /\ req.http_code \in {401, 403} /\ req.from.api_key # <<>>)
        => /\ ~req.success
           /\ req.invocations = 1
           /\ \E i \in 1 .. Len(req.stderr) : NamesKey(req.stderr[i], req.from.api_key)

\* the strings of the array api_keys of the configuration file
ConfiguredKeys(root) ==
    IF cJSON_IsObject(root) /\ cJSON_IsArray(cJSON_GetObjectItem(root, "api_keys"))
        THEN [i \in 1 .. Len(cJSON_GetObjectItem(root, "api_keys").child) |->
                 cJSON_GetObjectItem(root, "api_keys").child[i].valuestring]
    ELSE <<>>

\* C16: with the credentials A, B, C configured, consecutive successful calls
\* use them in turn from the first: call number k, all calls up to it having
\* succeeded, is made with credential number (k - 1) mod 3.
C16_RoundRobin ==
    Len(ConfiguredKeys(config)) = 3
        => \A k \in 1 .. Len(calls) :
               (\A j \in 1 .. k : calls[j].success)
                   => calls[k].key = ConfiguredKeys(config)[((k - 1) % 3) + 1]

\* C17: a request is sent with a key header exactly when there is a key, and
\* without a key it goes to another endpoint than the one of the keys.
C17_NoKeyNoCredentialHeader ==
    req.endpoint # ""
        => /\ (CredentialOf(req.headers) # NULL) <=> (req.from.api_key # <<>>)
           /\ req.from.api_key = <<>>
                  => req.url # RequestUrl([req.from EXCEPT !.api_key = <<"A">>], req.endpoint)

\* the array holds an entry with a member of that name
HasTool(tools, name) ==
    \E i \in 1 .. Len(tools.child) : cJSON_GetObjectItem(tools.child[i], name) # JNULL

\* C18: the tools array of a request holds a urlContext entry exactly when
\* url_context is on and a googleSearch entry exactly when google_grounding is
\* on, each whatever the other; there is no array exactly when both are off.
C18_ToolsFollowEachFlag ==
    IsGenerate(req)
        => /\ HasTool(cJSON_GetObjectItem(req.payload, "tools"), "urlContext")
                  <=> req.from.url_context
           /\ HasTool(cJSON_GetObjectItem(req.payload, "tools"), "googleSearch")
                  <=> req.from.google_grounding
           /\ (cJSON_GetObjectItem(req.payload, "tools") = JNULL)
                  <=> (~req.from.url_context /\ ~req.from.google_grounding)

\* generationConfig.thinkingConfig.thinkingBudget of a payload
ThinkingBudgetOf(payload) ==
    cJSON_GetObjectItem(
        cJSON_GetObjectItem(cJSON_GetObjectItem(payload, "generationConfig"), "thinkingConfig"),
        "thinkingBudget")

\* C19: whatever budget the configuration file, the command line or /budget
\* has set, the request holds thinkingConfig.thinkingBudget, and its value is
\* -1 whenever the budget set is 0 or less.
C19_BudgetSentinel ==
    IsGenerate(req)
        => /\ cJSON_IsNumber(ThinkingBudgetOf(req.payload))
           /\ req.from.thinking_budget <= 0 => ThinkingBudgetOf(req.payload).valueint = -1

\* the member is neither generationConfig nor tools
Kept(member) == member.name \notin {"generationConfig", "tools"}

\* C20: the payload of a token-count call is the payload a generate call would
\* send for the same state without generationConfig and tools:
\* systemInstruction and contents are the same, and nothing else is in it.
C20_CountPayloadIsStripped ==
    req.endpoint = "countTokens"
        => /\ req.payload.child = SelectSeq(build_request_json(req.from).child, Kept)
           /\ cJSON_GetObjectItem(req.payload, "systemInstruction")
                  = cJSON_GetObjectItem(build_request_json(req.from), "systemInstruction")
           /\ cJSON_GetObjectItem(req.payload, "contents")
                  = cJSON_GetObjectItem(build_request_json(req.from), "contents")
           /\ cJSON_GetObjectItem(req.payload, "generationConfig") = JNULL
           /\ cJSON_GetObjectItem(req.payload, "tools") = JNULL

\* a token-count call was made for a state with a system prompt, both tools
\* on and a history that holds a file and a text
C20_Witness ==
    /\ req.endpoint = "countTokens"
    /\ req.from.system_prompt # NULL
    /\ cJSON_GetObjectItem(build_request_json(req.from), "tools") # JNULL
    /\ cJSON_GetObjectItem(req.payload, "systemInstruction") # JNULL
    /\ \E i \in 1 .. req.from.history.num_contents :
           /\ req.from.history.contents[i].num_parts = 2
           /\ req.from.history.contents[i].parts[1].type = "PART_TYPE_FILE"

\* --------------------------------------------------- claims about the session
\* a step of /stats that calls get_token_count
StatsStep == req'.endpoint = "countTokens" /\ Len(calls') = Len(calls) + 1

\* the contents /stats has to count for a state: the turns of the history and,
\* with pending attachments, one more user turn made of them
CountedContents(s) ==
    IF s.num_attached_parts > 0
        THEN Append(Contents(s.history).child,
                    ContentItem([role |-> "user",
                                 parts |-> SubSeq(s.attached_parts, 1, s.num_attached_parts),
                                 num_parts |-> s.num_attached_parts]))
    ELSE Contents(s.history).child

IngestStep == ing'.done /\ ing' # ing

\* the attachments a state has registered
RegisteredParts(s) == SubSeq(s.attached_parts, 1, s.num_attached_parts)

\* C27: in every reachable state 0 <= num_attached_parts <= ATTACHMENT_LIMIT
\* (1024), and an attach attempt made while the list is full is rejected with
\* an error and changes nothing.
C27_PendingWithinLimit ==
    /\ [](/\ 0 <= state.num_attached_parts
          /\ state.num_attached_parts <= ATTACHMENT_LIMIT
          /\ ATTACHMENT_LIMIT = 1024)
    /\ [][IngestStep /\ state.num_attached_parts = ATTACHMENT_LIMIT
              => /\ state' = state
                 /\ ing'.outcome = "limit"
                 /\ ing'.stderr = Msg("Error: Attachment limit of %d reached.", 1024, <<>>)]_vars

\* a source that would have been attached was offered to a full list and
\* refused
C27_Witness ==
    /\ ing.done
    /\ ing.outcome = "limit"
    /\ state.num_attached_parts = ATTACHMENT_LIMIT
    /\ Len(ing.src.data) > 0
    /\ ~ing.src.read_error
    /\ ing.alloc = AllocOK

\* the outcomes of an ingestion that did not succeed
Failures ==
    {"limit", "unsafe", "open", "empty", "malloc", "overflow", "realloc", "read", "nodata",
     "metadata", "encode"}

\* a file that opens, under a safe name, and holds nothing
ZeroLengthFile(src) ==
    src.is_from_file /\ is_path_safe(src.filepath) /\ src.opens /\ Len(src.data) = 0

\* C28: every ingestion that does not succeed (zero-length file, source that
\* delivers no data, unsafe path, open failure, allocation failure, read
\* error, encoding failure) leaves num_attached_parts and the registered
\* pending attachments unchanged; a zero-length seekable source only produces
\* a warning.
C28_FailedIngestionRegistersNothing ==
    [][IngestStep =>
          /\ ing'.outcome \in Failures \cup {"attached"}
          /\ ing'.outcome \in Failures
                 => /\ state'.num_attached_parts = state.num_attached_parts
                    /\ RegisteredParts(state') = RegisteredParts(state)
          /\ ZeroLengthFile(ing'.src) /\ state.num_attached_parts < ATTACHMENT_LIMIT
                 => /\ ing'.outcome = "empty"
                    /\ ing'.stderr = Msg("Warning: File '%s' is empty. Attachment skipped.",
                                          0, ing'.src.filepath)]_vars

\* the encoding of a source that was read failed while attachments were
\* registered, and they still are
C28_Witness ==
    /\ ing.done
    /\ ing.outcome = "encode"
    /\ Len(ing.encoder_input) > 0
    /\ state.num_attached_parts = ATTACHMENT_LIMIT - 1
    /\ Len(state.attached_parts) = ATTACHMENT_LIMIT

\* C29: ingesting a source of exactly the initial buffer capacity (32768
\* bytes) performs exactly one capacity doubling (to 65536), and the bytes
\* handed to the encoder are the source's bytes, in order, with total size
\* 32768.
C29_OneDoublingAtInitialCapacity ==
    ing.done /\ Len(ing.src.data) = 32768 /\ ing.outcome \in {"attached", "encode"}
        => /\ INITIAL_CAPACITY = 32768
           /\ ing.read.doublings = 1
           /\ ing.read.capacities = <<32768, 65536>>
           /\ ing.read.capacity = 65536
           /\ ing.read.total_read = 32768
           /\ ing.encoder_input = ing.src.data

\* a source of 32768 bytes was attached, from a file
C29_Witness ==
    /\ ing.done
    /\ ing.outcome = "attached"
    /\ Len(ing.src.data) = 32768
    /\ ing.src.is_from_file
    /\ state.attached_parts[state.num_attached_parts].base64_data
           = base64_encode(ing.src.data)

\* the read loop of the ingestion was entered
LoopEntered(i) == i.outcome \in {"overflow", "realloc", "read", "nodata", "metadata", "encode", "attached"}

\* the source is so long that the capacity it needs is beyond the size type
BeyondSizeType(src) == Len(src.data) > 2 ^ (SIZE_BITS - 1) - READ_SIZE

\* C30: in the read loop the buffer has at least 1024 free bytes before each
\* read, the capacity only grows by doubling, and when doubling would wrap
\* around the size type the ingestion aborts with an error and registers
\* nothing instead of going on with a smaller buffer.
C30_ReadLoopKeepsRoomAndGuardsOverflow ==
    [][IngestStep /\ LoopEntered(ing') =>
          /\ ing'.read.min_free >= 1024
          /\ READ_SIZE = 1024
          /\ \A k \in 1 .. Len(ing'.read.capacities) - 1 :
                 ing'.read.capacities[k + 1] = 2 * ing'.read.capacities[k]
          /\ BeyondSizeType(ing'.src) /\ ing'.alloc.realloc_fail_at = 0
                 => /\ ing'.outcome = "overflow"
                    /\ ing'.stderr.format
                           = "Error: Buffer capacity overflow for extremely large attachment."
                    /\ state' = state]_vars

\* a source of half the range of the size type was read until the capacity
\* could not be doubled, after one doubling, and nothing was registered
C30_Witness ==
    /\ ing.done
    /\ ing.outcome = "overflow"
    /\ ing.read.doublings >= 1
    /\ ing.read.total_read = 2 ^ (SIZE_BITS - 1)
    /\ state.num_attached_parts = 0

\* ----------------------------------------------------- claims about the store
\* the step that loads the file as the last /save wrote it
SavedLoadStep == last_op'.kind = "load" /\ last_op'.saved

\* two parts that differ at most in the filename
SamePart(a, b) ==
    /\ a.type = b.type
    /\ a.text = b.text
    /\ a.mime_type = b.mime_type
    /\ a.base64_data = b.base64_data

\* two histories with the same roles and, turn by turn, the same parts
SameHistory(h, g) ==
    /\ h.num_contents = g.num_contents
    /\ \A i \in 1 .. h.num_contents :
           /\ h.contents[i].role = g.contents[i].role
           /\ h.contents[i].num_parts = g.contents[i].num_parts
           /\ \A j \in 1 .. h.contents[i].num_parts :
                  SamePart(h.contents[i].parts[j], g.contents[i].parts[j])

\* C22: the load of a saved document yields the history that was saved, with
\* the same roles, the same parts per turn in the same order, the same texts,
\* MIME types and payloads, and the system instruction that was saved; only
\* the filenames of attachments may be absent.
C22_SaveLoadRoundTrip ==
    [][SavedLoadStep =>
           /\ SameHistory(state'.history, disk.from.history)
           /\ state'.system_prompt = disk.from.system_prompt]_vars

\* a part with exactly one variant populated
OneVariant(part) ==
    \/ /\ part.type = "PART_TYPE_TEXT"
       /\ part.text # NULL
       /\ part.mime_type = NULL
       /\ part.base64_data = NULL
    \/ /\ part.type = "PART_TYPE_FILE"
       /\ part.text = NULL
       /\ part.mime_type # NULL
       /\ part.base64_data # NULL

\* C23: every part stored in the history of the running program, after
\* submissions, loads of any document and removals, has exactly one variant
\* populated: a text part has a text and no MIME type or payload, an
\* attachment part has a MIME type and a payload and no text.
C23_OneVariantPopulated ==
    pc = "loop" =>
        \A i \in 1 .. state.history.num_contents :
            \A j \in 1 .. state.history.contents[i].num_parts :
                OneVariant(state.history.contents[i].parts[j])

\* the step of /history attachments remove
HistoryRemoveStep == last_op'.kind = "remove"

\* does msg_idx:part_idx name an attachment of the history
NamesAttachment(s, msg_idx, part_idx) ==
    /\ msg_idx >= 0
    /\ msg_idx < s.history.num_contents
    /\ part_idx >= 0
    /\ part_idx < s.history.contents[msg_idx + 1].num_parts
    /\ s.history.contents[msg_idx + 1].parts[part_idx + 1].type = "PART_TYPE_FILE"

RemoveErrors ==
    { "Error: Invalid message index %d.",
      "Error: Invalid part index %d for message %d.",
      "Error: Part [%d:%d] is not a file attachment." }

\* the turn after is the turn before without the part at part_idx, the
\* other parts in their order
WithoutPart(before, after, part_idx) ==
    /\ after.role = before.role
    /\ after.num_parts = before.num_parts - 1
    /\ \A j \in 1 .. after.num_parts :
           after.parts[j] = before.parts[IF j <= part_idx THEN j ELSE j + 1]

\* C24: /history attachments remove with a turn index or a part index out of
\* range, or with the id of a part that is no attachment, reports an error
\* and leaves the history as it was; with the id of an attachment it removes
\* that part alone and keeps the other parts of the turn in their order.
C24_HistoryRemove ==
    [][HistoryRemoveStep =>
           IF NamesAttachment(state, last_op'.msg_idx, last_op'.part_idx)
               THEN /\ last_op'.report = "Removing attachment [%d:%d]: %s"
                    /\ state'.history.num_contents = state.history.num_contents
                    /\ \A i \in 1 .. state.history.num_contents :
                           IF i = last_op'.msg_idx + 1
                               THEN WithoutPart(state.history.contents[i],
                                                state'.history.contents[i], last_op'.part_idx)
                           ELSE state'.history.contents[i] = state.history.contents[i]
           ELSE /\ last_op'.report \in RemoveErrors
                /\ state'.history = state.history]_vars

\* an attachment was removed from a turn that keeps a part before it and a
\* part behind it
C24_Witness ==
    /\ last_op.kind = "remove"
    /\ last_op.report = "Removing attachment [%d:%d]: %s"
    /\ last_op.part_idx > 0
    /\ last_op.part_idx < state.history.contents[last_op.msg_idx + 1].num_parts

\* the step of a prompt submission
SubmissionStep == last_op'.kind = "submit"

\* C26: a prompt submission empties the list of pending attachments, and the
\* user turn it adds holds the attachments that were pending, in their
\* order, then the text part when the text is not empty; when the submission
\* is over the list is empty whether the call succeeded or failed.
C26_SubmissionTakesPending ==
    [][SubmissionStep =>
           /\ state'.num_attached_parts = 0
           /\ state'.attached_parts = << >>
           /\ last_op'.user_turn.role = "user"
           /\ last_op'.user_turn.num_parts =
                  state.num_attached_parts + (IF last_op'.p # << >> THEN 1 ELSE 0)
           /\ \A j \in 1 .. state.num_attached_parts :
                  last_op'.user_turn.parts[j] = state.attached_parts[j]
           /\ last_op'.p # << >> =>
                  last_op'.user_turn.parts[state.num_attached_parts + 1] = TextPart(last_op'.p)
           /\ last_op'.success =>
                  /\ state'.history.num_contents = state.history.num_contents + 2
                  /\ state'.history.contents[state.history.num_contents + 1] = last_op'.user_turn
           /\ ~last_op'.success => state'.history = state.history]_vars

\* a submission of two different pending attachments and a text, whose call
\* failed
C26_Witness ==
    /\ last_op.kind = "submit"
    /\ ~last_op.success
    /\ last_op.user_turn.num_parts = 3
    /\ last_op.user_turn.parts[1] # last_op.user_turn.parts[2]
    /\ last_op.user_turn.parts[3].type = "PART_TYPE_TEXT"
    /\ state.num_attached_parts = 0

\* the allocations of the turns and of the pending list, owner by owner
Owned(h) ==
    [i \in 1 .. Len(h.history) + 1 |->
        IF i <= Len(h.history) THEN Allocations(h.history[i].parts) \cup {h.history[i].role}
        ELSE Allocations(h.pending)]

\* the allocations and the parts agree: a turn has an allocation for each of
\* its parts, the pending list one for each attachment
HeapOfState ==
    /\ Len(heap.history) = state.history.num_contents
    /\ Len(heap.pending) = state.num_attached_parts
    /\ \A i \in 1 .. Len(heap.history) :
           /\ Len(heap.history[i].parts) = state.history.contents[i].num_parts
           /\ Cardinality(Allocations(heap.history[i].parts)) = Len(heap.history[i].parts)

\* C25: add_content_to_history stores copies of its own of the role and of
\* the parts it is given, and the caller's parts are what they were when it
\* returns; no allocation of a part is owned by two turns, or by a turn and
\* the pending list.
C25_OwnCopies ==
    pc = "loop" =>
        /\ HeapOfState
        /\ \A c \in 1 .. Len(heap.copied) :
               /\ Allocations(heap.copied[c].stored) \cap Allocations(heap.copied[c].caller) = {}
               /\ Len(heap.copied[c].stored) = Len(heap.copied[c].caller)
               /\ \A j \in 1 .. Len(heap.copied[c].stored) : heap.copied[c].stored[j] # NotHeap
               /\ Allocations(heap.copied[c].caller) \subseteq heap.copied[c].live
        /\ \A i, k \in 1 .. Len(heap.history) + 1 :
               i # k => Owned(heap)[i] \cap Owned(heap)[k] = {}

\* a submission of two pending attachments and a text was answered: the turn
\* holds copies, the pending attachments were freed, and the model's turn
\* took an allocation that was theirs
C25_Witness ==
    /\ last_op.kind = "submit"
    /\ last_op.success
    /\ last_op.user_turn.num_parts = 3
    /\ Len(heap.copied) = 2
    /\ Cardinality(Allocations(heap.copied[1].caller)) = 2
    /\ Allocations(heap.copied[1].caller) \cap heap.live # {}

\* ------------------------------------------- claims about the classification
\* does the content begin with the PNG signature
BeginsWithPng(data) ==
    Len(data) >= Len(PngSignature) /\ SubSeq(data, 1, Len(PngSignature)) = PngSignature

\* C31: the MIME type of an attachment is decided by its content first:
\* content that begins with the PNG signature is image/png whatever the
\* extension of the filename; otherwise the extension decides, and the
\* default is text/plain.
C31_MimeByContentFirst ==
    [][IngestStep /\ ing'.outcome = "attached" =>
           state'.attached_parts[state'.num_attached_parts].mime_type =
               IF BeginsWithPng(ing'.src.data) THEN <<"image/png">>
               ELSE get_mime_type(ing'.src.filepath)]_vars

\* ------------------------------------------------ claims about the session
\* C32: when the request cannot be built, printed or compressed,
\* send_api_request returns failure without a transfer, none is tried again,
\* and the submission alone is given up: its user turn is taken back, the
\* turns before it stay and the program reads the next line.
C32_SetUpFailureAbortsSubmission ==
    [][SubmissionStep /\ ~last_op'.local_ok =>
           /\ ~last_op'.success
           /\ last_op'.invocations = 0
           /\ ~last_op'.transported
           /\ state'.history = state.history
           /\ state'.last_model_response = state.last_model_response
           /\ pc' = "loop"]_vars

\* a submission after an answered exchange, of a request that could not be
\* made
C32_Witness ==
    /\ last_op.kind = "submit"
    /\ ~last_op.local_ok
    /\ last_op.user_turn.num_parts > 0
    /\ state.history.num_contents = 2
    /\ pc = "loop"

\* C33: after /clear or /session new, whatever the session held, the history
\* and the list of pending attachments are empty, the system prompt and the
\* last response of the model are unset, and the session is named [unsaved].
C33_ClearResetsSession ==
    last_op.kind = "clear" =>
        /\ state.history.num_contents = 0
        /\ state.history.contents = << >>
        /\ state.num_attached_parts = 0
        /\ state.attached_parts = << >>
        /\ state.system_prompt = NULL
        /\ state.last_model_response = NULL
        /\ state.current_session_name = <<"[unsaved]">>

\* /clear in a named session that held turns, a pending attachment, a system
\* prompt and a response
C33_Witness ==
    /\ last_op.kind = "clear"
    /\ last_op.before.num_contents > 0
    /\ last_op.before.num_attached_parts > 0
    /\ last_op.before.system_prompt # NULL
    /\ last_op.before.last_model_response # NULL
    /\ last_op.before.current_session_name = <<"s">>

\* the role of turn i of a history of exchanges
RoleAt(i) == IF i % 2 = 1 THEN "user" ELSE "model"

LoadStep == last_op'.kind = "load"

\* C35: a load that fails, because the file cannot be opened or read, its
\* text is no JSON object or the object has no array contents, leaves the
\* history and the system prompt as they were; a load that succeeds replaces
\* the whole history by the turns of the file.
C35_FailedLoadKeepsHistory ==
    [][LoadStep /\ pc' = "loop" =>
           IF last_op'.file.opened /\ last_op'.file.object /\ last_op'.file.contents
               THEN /\ state'.history.num_contents = Len(last_op'.file.roles)
                    /\ \A i \in 1 .. state'.history.num_contents :
                           state'.history.contents[i].role = last_op'.file.roles[i]
           ELSE /\ state'.history = state.history
                /\ state'.system_prompt = state.system_prompt]_vars

\* C36: every turn of the history holds at least one part, whatever
\* submissions, /history attachments remove commands and loads came before,
\* and no item of the contents array built of the history has an empty
\* array parts.
C36_NoTurnWithoutParts ==
    pc = "loop" =>
        /\ \A i \in 1 .. state.history.num_contents :
               state.history.contents[i].num_parts >= 1
        /\ \A i \in 1 .. Len(Contents(state.history).child) :
               cJSON_GetObjectItem(Contents(state.history).child[i], "parts").child # << >>

\* ------------------------------------------- claims about the end of a stream
\* the lines of bytes: the terminated ones and, when bytes follow the last
\* newline, the line they make
AllLines(bytes) ==
    CompleteLines(bytes, <<>>)
    \o (IF AfterLastNewline(bytes) = <<>> THEN <<>> ELSE << AfterLastNewline(bytes) >>)

\* the decoder after the lines ls, each handed to process_line
RECURSIVE Processed(_, _)
Processed(ls, m) ==
    IF ls = <<>> THEN m ELSE Processed(Tail(ls), process_line(Head(ls), m))

\* the transfer ended with every byte of the stream delivered
ClosedWhole == dpc = "closed" /\ wire = <<>>

\* C37: when the transfer closes with every byte delivered, the accumulated
\* response holds the text of every event of the stream, the last one too
\* when its line has no newline after it: the carry buffer holds no event
\* that was not processed.
C37_LastEventReflected ==
    ClosedWhole =>
        /\ Accumulated(mem) = Accumulated(Processed(AllLines(recv), NewDecoder))
        /\ ~(HasDataPrefix(Carry(mem)) /\ cJSON_IsString(EventText(Carry(mem))))

\* ------------------------------------------------ claims about the line loop
\* the bytes the lines from the i-th on took in the buffer, each with its newline
RECURSIVE BytesOf(_, _)
BytesOf(lines, i) ==
    IF i > Len(lines) THEN 0 ELSE Len(lines[i]) + 1 + BytesOf(lines, i + 1)

\* The account of one call on a chunk of n bytes, from the decoder before to
\* the result r: the call returned n; the loop ran once for every newline of
\* the chunk and left none; what it took off the buffer is the lines it
\* handed on, each with its newline, so at least a byte an iteration; the
\* size is that of the bytes left and not below zero.
LoopAccount(before, contents, r) ==
    /\ r.ret = Len(contents)
    /\ Len(r.mem.lines) - Len(before.lines) = Cardinality(NewlinesIn(contents))
    /\ NewlineAt(r.mem) = -1
    /\ before.size + Len(contents) - r.mem.size = BytesOf(r.mem.lines, Len(before.lines) + 1)
    /\ before.size + Len(contents) - r.mem.size >= Len(r.mem.lines) - Len(before.lines)
    /\ r.mem.size >= 0
    /\ r.mem.size = Len(r.mem.buffer)

\* C38: on every chunk the line loop of write_memory_callback ends, each
\* iteration having taken a line and its newline, at least one byte, off the
\* carry buffer; the size of the buffer never goes below zero; and the
\* callback returns the size of the chunk, unless the allocation failed, when
\* it returns 0 and leaves the decoder as it was.
C38_LineLoopTerminates ==
    dpc = "open" =>
        \A n \in 1 .. Len(wire) :
            /\ LoopAccount(mem, SubSeq(wire, 1, n),
                           write_memory_callback(mem, SubSeq(wire, 1, n), TRUE))
            /\ write_memory_callback(mem, SubSeq(wire, 1, n), FALSE) = [mem |-> mem, ret |-> 0]

\* C38 witness: an earlier call left the start of a line in the carry buffer
\* and the bytes to come end two lines, so one chunk makes the loop run twice.
C38_Witness ==
    /\ dpc = "open"
    /\ mem.size > 0
    /\ Cardinality(NewlinesIn(wire)) >= 2

====
